---- MODULE Spec2Model ----
(***************************************************************************)
(* State-machine model of the scheduler of auto_trade_stock_info:          *)
(*   - the Signal Engine (services/signal_engine.py) and the Risk Rules    *)
(*     (services/risk_rules.py) as operators on candidate lists,           *)
(*   - the three jobs (jobs/news_job.py, jobs/daily_job.py,                *)
(*     jobs/monitor_job.py) and the analysis-provider runner               *)
(*     (ai_runner.py) as a step machine.                                   *)
(*                                                                         *)
(* Numbers.  Python floats are modelled as fixed-point integers:           *)
(*   scores (technical_score, news_score, risk_penalty, total_score) in    *)
(*   thousandths of a point (Pt = 1 point), confidences in units of        *)
(*   1/100000 (ConfOne = 1.0).  round(x, 2) on a score is RoundTo(x, 10)   *)
(*   and round(x, 4) on a confidence is RoundTo(x, 10).                    *)
(***************************************************************************)
EXTENDS Integers, Sequences, FiniteSets, TLC

VARIABLES
    \* ---- Signal Engine / Risk Rules ----
    phase,              \* "init" | "built" | "adjusted", or "raised" when the
                        \* engine call ended by an exception
    results_given,     \* the results given to the intraday engine
    monitor_alerts,    \* the alerts the monitor run collected, in order
    origin,             \* which entry point produced `candidates`
    candidates,         \* the list handed to apply_risk_rules (its input)
    preferences,        \* the preferences argument of apply_risk_rules
    cloned_sorted,      \* local sorted_candidates at risk_rules.py:37
    after_checks,       \* local sorted_candidates at the end of the loop (line 67)
    adjusted,           \* the list apply_risk_rules returns
    memory,             \* the objects of the call: the caller's candidates and
                        \* the ones apply_risk_rules made, by address
    \* ---- Jobs and analysis-provider runner ----
    job,                \* "none" | "news" | "daily" | "monitor": the job that runs
    pc,                 \* position of the run
    config,             \* the ai.* configuration the run reads
    trading_day,        \* is_trading_day(today)
    in_window,          \* monitor_start <= now <= monitor_end
    monitor_now,        \* datetime.now() as the monitor job read it
    events,             \* the job events logged by _log_job_event, in order
    runner_calls,       \* calls of run_news_stock_picker / run_tw_stock_analyzer /
                        \* run_multi_stock_analysis
    skill_state,        \* what the skill preflight found
    prompt,             \* the prompt run_ai_task was given
    attempt,            \* run_ai_task's loop variable
    invocations,        \* the subprocess.run calls made, in order
    sleeps,             \* the backoff sleeps made
    ai_result,          \* what run_ai_task returned
    runner_result,      \* what the run_* function returned
    clock,              \* time.time(), in seconds
    started_at,         \* started_at captured by the run_* function
    files,              \* output files: name -> mtime (Absent when missing)
    report_path,        \* the report the job reads and attaches
    persisted,          \* candidate JSON/Markdown written
    emails,             \* send_report / send_alert calls
    raised,             \* the job function ended by an uncaught exception
    \* ---- Result parsing and alerts ----
    alert_pc,           \* "init" | "parsed" | "checked" | "sized", or "compared"
                        \* after two texts were parsed
    raw_text,           \* the text given to parse_single_stock_result
    parse_outcome,      \* what the call gave: None, a result, or an exception
    parsed_result,      \* the result given to check_alert
    threshold_config,   \* the signal_threshold settings given to check_alert
    alert,              \* what check_alert returned
    sizing,             \* capital, ratios and holding given to
                        \* _attach_quantity_to_alert
    enriched_alert,     \* what _attach_quantity_to_alert returned
    twin_text,          \* a second text given to parse_single_stock_result
    twin_outcome,       \* what that call gave
    \* ---- Trading-plan extraction ----
    plan_pc,            \* "writing" | "parsed"
    plan_exists,        \* path.exists() of the plan given to parse_trading_plan
    plan_content,       \* the lines of the plan file
    plan_parsed,        \* what parse_trading_plan returned
    plan_extracted,     \* the codes the loop of parse_trading_plan took from
                        \* table rows, in order: line number, list, code
    \* ---- PID guard ----
    guard_pc,           \* "init" | "ready": a previous run has left its traces
    left_file,          \* the PID file as the previous run left it
    old_process,        \* the process with OLD_PID: "dead", "live" or, when it
                        \* belongs to another user, "foreign"
    pid_file,           \* scheduler.pid at this moment
    inodes,             \* number of files created at the path so far
    proc,               \* the starting scheduler processes, by number
    atexit_hooks,       \* per process: remove_pid registered with atexit,
                        \* the exit of the interpreter ran, it removed the file
    \* ---- Skill lookup and synchronization ----
    skill_pc,           \* "init" | "configured" | "prepared" | "invoked"
    skill_cfg,          \* ai.provider and ai.skill_enforcement as configured
    home_real,          \* the directory the provider home path leads to
    skills_before,      \* the skill directories before the preflight
    skills,             \* the skill directories now, by directory and name
    preflight           \* what the skill preflight did and returned

riskVars == <<phase, origin, candidates, preferences, cloned_sorted,
              after_checks, adjusted, memory, results_given,
              monitor_alerts>>

jobVars == <<job, pc, config, trading_day, in_window, monitor_now, events,
             runner_calls,
             skill_state, prompt, attempt, invocations, sleeps, ai_result,
             runner_result, clock, started_at, files, report_path, persisted,
             emails, raised>>

alertVars == <<alert_pc, raw_text, parse_outcome, parsed_result, threshold_config,
               alert, sizing, enriched_alert, twin_text, twin_outcome>>

planVars == <<plan_pc, plan_exists, plan_content, plan_parsed, plan_extracted>>

pidVars == <<guard_pc, left_file, old_process, pid_file, inodes, proc,
             atexit_hooks>>

skillVars == <<skill_pc, skill_cfg, home_real, skills_before, skills, preflight>>

vars == <<riskVars, jobVars, alertVars, planVars, pidVars, skillVars>>

-----------------------------------------------------------------------------
(* Bounds of the model *)

MaxCands == 3       \* longest candidate list given directly to the risk rules
MaxResults == 2     \* longest parsed-results list given to the intraday engine
MaxAttemptsCfg == 2 \* largest configured ai.retry.max_attempts
MaxPlanRows == 3    \* most table rows of a trading plan
MaxPlanLines == 4   \* most lines of a trading plan given line by line
MaxSkillRoots == 2  \* most entries of ai.skill_enforcement.repo_skill_roots
MaxSignals == 3     \* most bullish (and most bearish) signals of a result

(* Fixed-point units *)
Pt == 1000          \* one score point
ConfOne == 100000   \* confidence 1.0

(* Program constants *)
DEFAULT_MAX_BUY_SIGNALS == 5
DEFAULT_MIN_BUY_CONFIDENCE == 55000
DEFAULT_BACKOFF_SECONDS == 3
DEFAULT_MIN_SIGNALS == 3
MTIME_TOLERANCE == 2
OLD_PID == 12345
MONITOR_START == 540    \* "09:00", minutes of the day
MONITOR_END == 810      \* "13:30"

-----------------------------------------------------------------------------
(* Generic helpers *)

Max(a, b) == IF a >= b THEN a ELSE b
Min(a, b) == IF a <= b THEN a ELSE b
Abs(a) == IF a < 0 THEN -a ELSE a

\* Python round(): nearest multiple of m, ties to the even multiple.
RoundTo(x, m) ==
    LET q == x \div m
        r == x % m
    IN  IF 2 * r < m THEN q * m
        ELSE IF 2 * r > m THEN (q + 1) * m
        ELSE IF q % 2 = 0 THEN q * m ELSE (q + 1) * m

\* All sequences over S of length 0..n
SeqsUpTo(S, n) == UNION {[1..k -> S] : k \in 0..n}

\* signal_engine._clamp
clamp(value, min_value, max_value) ==
    IF value < min_value THEN min_value
    ELSE IF value > max_value THEN max_value
    ELSE value

\* sorted(..., key=total_score, reverse=True) / list.sort(...): a stable sort,
\* descending by total_score; equal keys keep their relative order.
RECURSIVE InsertDesc(_, _)
InsertDesc(sorted, c) ==
    IF sorted = << >> THEN <<c>>
    ELSE IF Head(sorted).total_score >= c.total_score
         THEN <<Head(sorted)>> \o InsertDesc(Tail(sorted), c)
         ELSE <<c>> \o sorted

RECURSIVE SortDescFrom(_, _)
SortDescFrom(done, rest) ==
    IF rest = << >> THEN done
    ELSE SortDescFrom(InsertDesc(done, Head(rest)), Tail(rest))

SortByTotalScoreDesc(items) == SortDescFrom(<< >>, items)

-----------------------------------------------------------------------------
(* domain/types.py : CandidateSignal *)

SignalAction == {"buy", "watch", "reduce", "avoid"}

Reason(tag, args) == [tag |-> tag, args |-> args]

CandidateSignal(code, tech, news, penalty, total, action, conf, reasons, source) ==
    [stock_code |-> code, technical_score |-> tech, news_score |-> news,
     risk_penalty |-> penalty, total_score |-> total, action |-> action,
     confidence |-> conf, reasons |-> reasons, source |-> source]

\* CandidateSignal.to_dict: the numeric fields are rounded
to_dict(c) ==
    [c EXCEPT !.technical_score = RoundTo(c.technical_score, 10),
              !.news_score = RoundTo(c.news_score, 10),
              !.risk_penalty = RoundTo(c.risk_penalty, 10),
              !.total_score = RoundTo(c.total_score, 10),
              !.confidence = RoundTo(c.confidence, 10)]

-----------------------------------------------------------------------------
(* services/signal_engine.py *)

\* str.strip() on the texts the model uses
StripText(text) ==
    CASE text = " Sell " -> "Sell"
      [] text = "  " -> ""
      [] text = " kd_cross" -> "kd_cross"
      [] OTHER -> text

\* str.lower() on the texts the model uses
LowerText(text) ==
    CASE text = "BUY" -> "buy"
      [] text = "Sell" -> "sell"
      [] text = "Hold" -> "hold"
      [] OTHER -> text

\* str(x).strip().lower()
NormalizeText(text) == LowerText(StripText(text))

\* _map_action_from_suggestion with the signal counts looked at first
_map_action_from_suggestion_CountsFirst(suggestion, bull_count, bear_count) ==
    LET normalized_suggestion == NormalizeText(suggestion)
    IN  IF bear_count > bull_count THEN "avoid"
        ELSE IF normalized_suggestion = "buy" THEN "buy"
        ELSE IF normalized_suggestion = "sell" THEN "reduce"
        ELSE "watch"

_map_action_from_suggestion(suggestion, bull_count, bear_count) ==
    LET normalized_suggestion == NormalizeText(suggestion)
    IN  IF normalized_suggestion = "buy" THEN "buy"
        ELSE IF normalized_suggestion = "sell" THEN "reduce"
        ELSE IF normalized_suggestion \in {"watch", "hold"} THEN "watch"
        ELSE IF bear_count > bull_count THEN "avoid"
        ELSE "watch"

FirstThree(signals) == SubSeq(signals, 1, Min(3, Len(signals)))

_build_intraday_reasons(result_item) ==
    LET suggestion == NormalizeText(result_item.suggestion)
        r1 == IF suggestion # "" THEN <<Reason("suggestion", <<suggestion>>)>> ELSE << >>
        r2 == IF result_item.bullish_signals # << >>
              THEN <<Reason("bullish", FirstThree(result_item.bullish_signals))>>
              ELSE << >>
        r3 == IF result_item.bearish_signals # << >>
              THEN <<Reason("bearish", FirstThree(result_item.bearish_signals))>>
              ELSE << >>
        reasons == r1 \o r2 \o r3
    IN  IF reasons = << >> THEN <<Reason("no_explicit_signal", << >>)>> ELSE reasons

\* One buy_candidates entry of the plan (signal_engine.py:64-78)
DailyBuyCandidate(stock_code) ==
    CandidateSignal(stock_code, 68 * Pt, 0, 0, 68 * Pt, "buy", 65000,
                    <<Reason("plan_buy", << >>)>>, "daily_plan")

\* One watchlist entry of the plan (signal_engine.py:80-94)
DailyWatchCandidate(stock_code) ==
    CandidateSignal(stock_code, 48 * Pt, 0, 0, 48 * Pt, "watch", 45000,
                    <<Reason("plan_watch", << >>)>>, "daily_plan")

build_daily_candidates_from_plan(parsed_plan) ==
    [i \in 1..Len(parsed_plan.buy_candidates) |->
        DailyBuyCandidate(parsed_plan.buy_candidates[i])]
    \o
    [i \in 1..Len(parsed_plan.watchlist) |->
        DailyWatchCandidate(parsed_plan.watchlist[i])]

\* The loop body with `elif score < 0` in place of the second `if`
IntradayCandidate_PenaltyElif(result_item) ==
    LET score == result_item.score
        bull_count == result_item.bullish_count
        bear_count == result_item.bearish_count
        technical_score == clamp(50 + (score * 4) + ((bull_count - bear_count) * 3), 0, 100) * Pt
        news_score == 0
        risk_penalty == IF bear_count >= bull_count + 2 THEN 6 * Pt
                        ELSE IF score < 0 THEN 4 * Pt ELSE 0
        total_score == clamp(technical_score + news_score - risk_penalty, 0, 100 * Pt)
        confidence == clamp(50000 + Min(Abs(score), 10) * 3000, 20000, 95000)
        action == _map_action_from_suggestion(result_item.suggestion, bull_count, bear_count)
    IN  CandidateSignal(StripText(result_item.stock_code), technical_score, news_score,
                        risk_penalty, total_score, action, confidence,
                        _build_intraday_reasons(result_item), "intraday_monitor")

\* The loop body of build_intraday_candidates_from_results for one result
\* whose stock_code is not empty (signal_engine.py:111-156)
IntradayCandidate(result_item) ==
    LET score == result_item.score
        bull_count == result_item.bullish_count
        bear_count == result_item.bearish_count
        technical_score == clamp(50 + (score * 4) + ((bull_count - bear_count) * 3), 0, 100) * Pt
        news_score == 0
        risk_penalty == (IF bear_count >= bull_count + 2 THEN 6 * Pt ELSE 0)
                        + (IF score < 0 THEN 4 * Pt ELSE 0)
        total_score == clamp(technical_score + news_score - risk_penalty, 0, 100 * Pt)
        confidence == clamp(50000 + Min(Abs(score), 10) * 3000, 20000, 95000)
        action == _map_action_from_suggestion(result_item.suggestion, bull_count, bear_count)
    IN  CandidateSignal(StripText(result_item.stock_code), technical_score, news_score,
                        risk_penalty, total_score, action, confidence,
                        _build_intraday_reasons(result_item), "intraday_monitor")

RECURSIVE IntradayCollect(_)
IntradayCollect(parsed_results) ==
    IF parsed_results = << >> THEN << >>
    ELSE IF StripText(Head(parsed_results).stock_code) = ""
         THEN IntradayCollect(Tail(parsed_results))
         ELSE <<IntradayCandidate(Head(parsed_results))>> \o IntradayCollect(Tail(parsed_results))

build_intraday_candidates_from_results(parsed_results) ==
    SortByTotalScoreDesc(IntradayCollect(parsed_results))

\* A value found under a numeric key of a result item: an int ("int"), a text
\* holding an integer ("numeric_text"), any other non-empty text ("text", for
\* example "N/A"), the empty text ("empty_text") or None/key missing ("none").
\* `value` is the number for the first two kinds and 0 for the others.
Value(kind, value) == [kind |-> kind, value |-> value]

IntValue(n) == Value("int", n)

\* int(x or 0) and float(x or 0) (signal_engine.py:111-113, 153): a falsy x
\* gives 0, a number or a numeric text its value, any other text raises
\* ValueError.
NumberOrZero(x) ==
    CASE x.kind \in {"int", "numeric_text"} -> [raised |-> FALSE, value |-> x.value]
      [] x.kind \in {"empty_text", "none"} -> [raised |-> FALSE, value |-> 0]
      [] OTHER -> [raised |-> TRUE, value |-> 0]

\* A result item as a caller may hand it over
GivenResult(code, suggestion, score, bull, bear, price, bull_sigs, bear_sigs) ==
    [stock_code |-> code, suggestion |-> suggestion, score |-> score,
     bullish_count |-> bull, bearish_count |-> bear, price |-> price,
     bullish_signals |-> bull_sigs, bearish_signals |-> bear_sigs]

\* A result item whose numbers are ints, as a given item
AsGiven(r) ==
    GivenResult(r.stock_code, r.suggestion, IntValue(r.score), IntValue(r.bullish_count),
                IntValue(r.bearish_count), IntValue(0), r.bullish_signals, r.bearish_signals)

\* The numbers of a given item once int() accepted them all
WithNumbers(r) ==
    [stock_code |-> r.stock_code, suggestion |-> r.suggestion,
     score |-> NumberOrZero(r.score).value,
     bullish_count |-> NumberOrZero(r.bullish_count).value,
     bearish_count |-> NumberOrZero(r.bearish_count).value,
     bullish_signals |-> r.bullish_signals, bearish_signals |-> r.bearish_signals]

\* One of the conversions of the loop body raises (signal_engine.py:111-113, 153)
ItemRaises(r) ==
    \/ NumberOrZero(r.score).raised
    \/ NumberOrZero(r.bullish_count).raised
    \/ NumberOrZero(r.bearish_count).raised
    \/ NumberOrZero(r.price).raised

\* The loop of build_intraday_candidates_from_results on given items: a blank
\* stock_code is skipped before any conversion, a conversion that raises ends
\* the call.
RECURSIVE IntradayCollectGiven(_)
IntradayCollectGiven(results) ==
    IF results = << >> THEN [raised |-> FALSE, candidates |-> << >>]
    ELSE IF StripText(Head(results).stock_code) = ""
         THEN IntradayCollectGiven(Tail(results))
    ELSE IF ItemRaises(Head(results))
         THEN [raised |-> TRUE, candidates |-> << >>]
    ELSE LET rest == IntradayCollectGiven(Tail(results))
         IN  IF rest.raised THEN rest
             ELSE [raised |-> FALSE,
                   candidates |-> <<IntradayCandidate(WithNumbers(Head(results)))>>
                                  \o rest.candidates]

\* A call of build_intraday_candidates_from_results (signal_engine.py:99-159):
\* the list it returns, or raised when an exception left it
build_intraday_candidates_call(results) ==
    LET got == IntradayCollectGiven(results)
    IN  IF got.raised THEN got
        ELSE [raised |-> FALSE, candidates |-> SortByTotalScoreDesc(got.candidates)]

-----------------------------------------------------------------------------
(* services/risk_rules.py *)

\* preferences: is_dict says whether the argument is a dict at all; has_x says
\* whether key x is present, x its value.
Preferences(is_dict, has_capital, capital, has_max, max_buy, has_conf, min_conf) ==
    [is_dict |-> is_dict,
     has_capital |-> has_capital, capital |-> capital,
     has_max_buy_signals |-> has_max, max_buy_signals |-> max_buy,
     has_min_buy_confidence |-> has_conf, min_buy_confidence |-> min_conf]

\* float(prefs.get("capital", 0) or 0)
PrefCapital(prefs) ==
    IF prefs.is_dict /\ prefs.has_capital THEN prefs.capital ELSE 0

\* max(0, int(prefs.get("max_buy_signals", DEFAULT_MAX_BUY_SIGNALS) or 0))
PrefMaxBuySignals(prefs) ==
    Max(0, IF prefs.is_dict /\ prefs.has_max_buy_signals
           THEN prefs.max_buy_signals
           ELSE DEFAULT_MAX_BUY_SIGNALS)

\* max(0, min(1, float(prefs.get("min_buy_confidence", DEFAULT_MIN_BUY_CONFIDENCE) or 0)))
PrefMinBuyConfidence(prefs) ==
    Max(0, Min(ConfOne, IF prefs.is_dict /\ prefs.has_min_buy_confidence
                        THEN prefs.min_buy_confidence
                        ELSE DEFAULT_MIN_BUY_CONFIDENCE))

_clone_candidate(candidate) == to_dict(candidate)

\* A downgrade that sets avoid in place of watch
Downgrade_ToAvoid(candidate, penalty, reason_tag) ==
    [candidate EXCEPT !.action = "avoid",
                      !.risk_penalty = candidate.risk_penalty + penalty,
                      !.total_score = Max(0, candidate.total_score - penalty),
                      !.reasons = Append(candidate.reasons, Reason(reason_tag, << >>))]

\* Downgrade without the floor at 0 on total_score
Downgrade_NoFloor(candidate, penalty, reason_tag) ==
    [candidate EXCEPT !.action = "watch",
                      !.risk_penalty = candidate.risk_penalty + penalty,
                      !.total_score = candidate.total_score - penalty,
                      !.reasons = Append(candidate.reasons, Reason(reason_tag, << >>))]

\* A downgrade that lowers total_score and leaves risk_penalty as it was
Downgrade_PenaltyKept(candidate, penalty, reason_tag) ==
    [candidate EXCEPT !.action = "watch",
                      !.total_score = Max(0, candidate.total_score - penalty),
                      !.reasons = Append(candidate.reasons, Reason(reason_tag, << >>))]

\* A downgrade that puts its reason in front of the candidate's reasons
Downgrade_ReasonFirst(candidate, penalty, reason_tag) ==
    [candidate EXCEPT !.action = "watch",
                      !.risk_penalty = candidate.risk_penalty + penalty,
                      !.total_score = Max(0, candidate.total_score - penalty),
                      !.reasons = <<Reason(reason_tag, << >>)>> \o candidate.reasons]

\* A downgrade: action watch, penalty added, total_score lowered and floored
\* at 0, one reason appended (risk_rules.py:45-48, 52-57, 61-64)
Downgrade(candidate, penalty, reason_tag) ==
    [candidate EXCEPT !.action = "watch",
                      !.risk_penalty = candidate.risk_penalty + penalty,
                      !.total_score = Max(0, candidate.total_score - penalty),
                      !.reasons = Append(candidate.reasons, Reason(reason_tag, << >>))]

\* The loop body with the cap compared by > instead of >=
RiskCheck_OffByOne(candidate, buy_count, capital, max_buy_signals, min_buy_confidence) ==
    IF candidate.action # "buy"
    THEN [candidate |-> candidate, buy_count |-> buy_count]
    ELSE IF capital <= 0
    THEN [candidate |-> Downgrade(candidate, 10 * Pt, "risk_capital"),
          buy_count |-> buy_count]
    ELSE IF candidate.confidence < min_buy_confidence
    THEN [candidate |-> Downgrade(candidate, 5 * Pt, "risk_confidence"),
          buy_count |-> buy_count]
    ELSE IF buy_count > max_buy_signals
    THEN [candidate |-> Downgrade(candidate, 4 * Pt, "risk_max_buy"),
          buy_count |-> buy_count]
    ELSE [candidate |-> candidate, buy_count |-> buy_count + 1]

\* The loop body without the `continue` statements: every failing check of a
\* buy candidate applies its own downgrade
RiskCheck_Accumulate(candidate, buy_count, capital, max_buy_signals, min_buy_confidence) ==
    IF candidate.action # "buy"
    THEN [candidate |-> candidate, buy_count |-> buy_count]
    ELSE LET c1 == IF capital <= 0
                   THEN Downgrade(candidate, 10 * Pt, "risk_capital") ELSE candidate
             c2 == IF candidate.confidence < min_buy_confidence
                   THEN Downgrade(c1, 5 * Pt, "risk_confidence") ELSE c1
             c3 == IF buy_count >= max_buy_signals
                   THEN Downgrade(c2, 4 * Pt, "risk_max_buy") ELSE c2
         IN  [candidate |-> c3,
              buy_count |-> IF c3.action = "buy" THEN buy_count + 1 ELSE buy_count]

\* The loop body with the confidence check ahead of the capital check
RiskCheck_ConfidenceFirst(candidate, buy_count, capital, max_buy_signals, min_buy_confidence) ==
    IF candidate.action # "buy"
    THEN [candidate |-> candidate, buy_count |-> buy_count]
    ELSE IF candidate.confidence < min_buy_confidence
    THEN [candidate |-> Downgrade(candidate, 5 * Pt, "risk_confidence"),
          buy_count |-> buy_count]
    ELSE IF capital <= 0
    THEN [candidate |-> Downgrade(candidate, 10 * Pt, "risk_capital"),
          buy_count |-> buy_count]
    ELSE IF buy_count >= max_buy_signals
    THEN [candidate |-> Downgrade(candidate, 4 * Pt, "risk_max_buy"),
          buy_count |-> buy_count]
    ELSE [candidate |-> candidate, buy_count |-> buy_count + 1]

\* The loop body (risk_rules.py:40-67) for one candidate: the candidate as the
\* body leaves it and the new buy_count.
RiskCheck(candidate, buy_count, capital, max_buy_signals, min_buy_confidence) ==
    IF candidate.action # "buy"
    THEN [candidate |-> candidate, buy_count |-> buy_count]
    ELSE IF capital <= 0
    THEN [candidate |-> Downgrade(candidate, 10 * Pt, "risk_capital"),
          buy_count |-> buy_count]
    ELSE IF candidate.confidence < min_buy_confidence
    THEN [candidate |-> Downgrade(candidate, 5 * Pt, "risk_confidence"),
          buy_count |-> buy_count]
    ELSE IF buy_count >= max_buy_signals
    THEN [candidate |-> Downgrade(candidate, 4 * Pt, "risk_max_buy"),
          buy_count |-> buy_count]
    ELSE [candidate |-> candidate, buy_count |-> buy_count + 1]

\* The for loop over sorted_candidates
RECURSIVE RiskLoop(_, _, _, _, _)
RiskLoop(items, buy_count, capital, max_buy_signals, min_buy_confidence) ==
    IF items = << >> THEN << >>
    ELSE LET step == RiskCheck(Head(items), buy_count, capital,
                               max_buy_signals, min_buy_confidence)
         IN  <<step.candidate>> \o RiskLoop(Tail(items), step.buy_count, capital,
                                            max_buy_signals, min_buy_confidence)

\* sorted_candidates built without the sort: the clones in input order
ClonedSorted_InputOrder(items) ==
    [i \in 1..Len(items) |-> _clone_candidate(items[i])]

\* sorted_candidates as first built (risk_rules.py:33-37)
ClonedSorted(items) ==
    SortByTotalScoreDesc([i \in 1..Len(items) |-> _clone_candidate(items[i])])

\* sorted_candidates when the loop ends (risk_rules.py:39-67)
AfterChecks(items, prefs) ==
    RiskLoop(ClonedSorted(items), 0, PrefCapital(prefs),
             PrefMaxBuySignals(prefs), PrefMinBuyConfidence(prefs))

\* apply_risk_rules without the final sort (risk_rules.py:69)
apply_risk_rules_NoResort(items, prefs) ==
    IF items = << >> THEN << >> ELSE AfterChecks(items, prefs)

apply_risk_rules(items, prefs) ==
    IF items = << >> THEN << >>
    ELSE SortByTotalScoreDesc(AfterChecks(items, prefs))

-----------------------------------------------------------------------------
(* services/risk_rules.py on objects: who shares what with whom *)

\* Python objects by address.  A store holds the CandidateSignal objects, the
\* list objects their `reasons` fields point to and the dict objects their
\* `metadata` fields point to.  An object is the candidate's record with the
\* address of its reasons list in `reasons` and of its metadata in `metadata`.
Store(objects, lists, maps) == [objects |-> objects, lists |-> lists, maps |-> maps]

\* The candidate at an address, its reasons read through the reference
Deref(store, addr) ==
    LET obj == store.objects[addr]
    IN  [f \in (DOMAIN obj) \ {"metadata"} |->
            IF f = "reasons" THEN store.lists[obj.reasons] ELSE obj[f]]

\* The store a caller holds before the call: candidate i at address i, with a
\* reasons list and a metadata dict of its own
CallerStore(items) ==
    Store([i \in 1..Len(items) |->
              [f \in (DOMAIN items[i]) \cup {"metadata"} |->
                  IF f \in {"reasons", "metadata"} THEN i ELSE items[i][f]]],
          [i \in 1..Len(items) |-> items[i].reasons],
          [i \in 1..Len(items) |-> items[i].stock_code])

\* A clone that copies the fields but keeps pointing to the same reasons list
\* and metadata dict (dict(vars(candidate)) in place of asdict)
_clone_candidate_in_memory_Shallow(store, addr) ==
    LET rounded == to_dict(Deref(store, addr))
        obj == [f \in DOMAIN store.objects[addr] |->
                   IF f \in {"reasons", "metadata"} THEN store.objects[addr][f]
                   ELSE rounded[f]]
    IN  [store |-> Store(Append(store.objects, obj), store.lists, store.maps),
         addr |-> Len(store.objects) + 1]

\* _clone_candidate (risk_rules.py:13-14): to_dict goes through
\* dataclasses.asdict, which copies lists and dicts recursively, so the new
\* CandidateSignal has a reasons list and a metadata dict of its own.
_clone_candidate_in_memory(store, addr) ==
    LET rounded == to_dict(Deref(store, addr))
        obj == [f \in DOMAIN store.objects[addr] |->
                   IF f = "reasons" THEN Len(store.lists) + 1
                   ELSE IF f = "metadata" THEN Len(store.maps) + 1
                   ELSE rounded[f]]
    IN  [store |-> Store(Append(store.objects, obj),
                         Append(store.lists, rounded.reasons),
                         Append(store.maps, store.maps[store.objects[addr].metadata])),
         addr |-> Len(store.objects) + 1]

\* [_clone_candidate(item) for item in candidates]
RECURSIVE CloneAll(_, _, _)
CloneAll(store, addrs, made) ==
    IF addrs = << >> THEN [store |-> store, addrs |-> made]
    ELSE LET one == _clone_candidate_in_memory(store, Head(addrs))
         IN  CloneAll(one.store, Tail(addrs), Append(made, one.addr))

\* sorted(list, key=total_score, reverse=True) on addresses: a new list
SortedAddrs(store, addrs) ==
    LET keyed == [i \in 1..Len(addrs) |->
                     [addr |-> addrs[i], total_score |-> store.objects[addrs[i]].total_score]]
        ordered == SortByTotalScoreDesc(keyed)
    IN  [i \in 1..Len(ordered) |-> ordered[i].addr]

\* The assignments and the reasons.append of the loop body, made on the
\* object at addr and on the list its reasons field points to
WriteThrough(store, addr, value) ==
    LET obj == store.objects[addr]
    IN  Store([store.objects EXCEPT ![addr] =
                  [f \in DOMAIN obj |->
                      IF f \in {"reasons", "metadata"} THEN obj[f] ELSE value[f]]],
              [store.lists EXCEPT ![obj.reasons] = value.reasons],
              store.maps)

\* The for loop (risk_rules.py:39-67) on the objects
RECURSIVE RiskLoopInMemory(_, _, _, _, _, _)
RiskLoopInMemory(store, addrs, buy_count, capital, max_buy_signals, min_buy_confidence) ==
    IF addrs = << >> THEN store
    ELSE LET step == RiskCheck(Deref(store, Head(addrs)), buy_count, capital,
                               max_buy_signals, min_buy_confidence)
         IN  RiskLoopInMemory(WriteThrough(store, Head(addrs), step.candidate),
                              Tail(addrs), step.buy_count, capital,
                              max_buy_signals, min_buy_confidence)

\* What a call leaves: the store, the caller's list and the returned list
CallMemory(store, input, returned) ==
    [store |-> store, input |-> input, returned |-> returned]

NoCall == CallMemory(Store(<< >>, << >>, << >>), << >>, << >>)

\* apply_risk_rules (risk_rules.py:17-70) on the objects of its argument
apply_risk_rules_in_memory(items, prefs) ==
    LET before == CallerStore(items)
        input == [i \in 1..Len(items) |-> i]
    IN  IF items = << >> THEN CallMemory(before, input, << >>)
        ELSE LET cloned == CloneAll(before, input, << >>)
                 sorted_candidates == SortedAddrs(cloned.store, cloned.addrs)
                 after == RiskLoopInMemory(cloned.store, sorted_candidates, 0,
                                           PrefCapital(prefs), PrefMaxBuySignals(prefs),
                                           PrefMinBuyConfidence(prefs))
             IN  CallMemory(after, input, SortedAddrs(after, sorted_candidates))

-----------------------------------------------------------------------------
(* Inputs of the Signal Engine / Risk Rules specification *)

StockCodes == {"2330", "2317", "2454"}

\* Lists without repetition over S (what parse_trading_plan returns per list)
DistinctSeqs(S) ==
    {q \in SeqsUpTo(S, Cardinality(S)) : \A i, j \in 1..Len(q) : i # j => q[i] # q[j]}

ParsedPlans ==
    {[buy_candidates |-> b, watchlist |-> w] :
        b \in DistinctSeqs(StockCodes), w \in DistinctSeqs(StockCodes)}

\* A line of a trading plan, by what parse_trading_plan reads of it:
\*   start: how the line begins ("###", "##", "|" or "" for running text);
\*   phrases: the phrases of the plan's vocabulary that occur in the line,
\*     written here by their meaning: "buy_plan", "bullish_candidates" and
\*     "watch_list" are the section titles of report_parser.py:55-65, "buy",
\*     "bullish", "watch" and "list" the parts of them looked for at lines 65
\*     and 72, "code", "target" and "item" the column titles of line 81;
\*   dashes: "---" occurs in the line;
\*   cells: the texts between the pipes, each a sequence of words.
PlanLine(start, phrases, dashes, cells) ==
    [start |-> start, phrases |-> phrases, dashes |-> dashes, cells |-> cells]

\* `phrase in line`: a phrase occurs in every line that holds a longer phrase
\* it is a part of
Contains(line, phrase) ==
    \/ phrase \in line.phrases
    \/ phrase = "buy" /\ line.phrases \cap {"buy_plan", "bullish_candidates"} # {}
    \/ phrase = "bullish" /\ "bullish_candidates" \in line.phrases
    \/ phrase \in {"watch", "list"} /\ "watch_list" \in line.phrases

\* The words of the model that stock_code_pattern, \b([\d]{4,6}[A-Z]?)\b,
\* matches (report_parser.py:46); names and short numbers do not match
PatternWords == {"2330", "2317", "2454", "2603", "1180"}

RECURSIVE Flatten(_)
Flatten(seqs) == IF seqs = << >> THEN << >> ELSE Head(seqs) \o Flatten(Tail(seqs))

\* stock_code_pattern.findall(line)
FindAll(line) == SelectSeq(Flatten(line.cells), LAMBDA word : word \in PatternWords)

InList(list, x) == \E i \in 1..Len(list) : list[i] = x

\* _is_likely_stock_code(code, line), report_parser.py:106-121: the code
\* occurs in the first non-empty field of the row (no word of the model is a
\* part of another one)
_is_likely_stock_code(code, line) ==
    LET parts == SelectSeq(line.cells, LAMBDA cell : cell # << >>)
    IN  IF parts = << >> THEN FALSE ELSE InList(parts[1], code)

\* The codes taken from a row when the loop over the matches does not stop at
\* the first likely code
TakenCodes_NoBreak(line) ==
    SelectSeq(FindAll(line), LAMBDA code : _is_likely_stock_code(code, line))

\* The codes the loop over the matches of a row takes
\* (report_parser.py:83-94): the first likely one, then break
TakenCodes(line) ==
    LET likely == SelectSeq(FindAll(line), LAMBDA code : _is_likely_stock_code(code, line))
    IN  IF likely = << >> THEN << >> ELSE <<Head(likely)>>

\* list(dict.fromkeys(list)): first occurrences, in order
RECURSIVE Unique(_, _)
Unique(seen, rest) ==
    IF rest = << >> THEN seen
    ELSE Unique(IF InList(seen, Head(rest)) THEN seen ELSE Append(seen, Head(rest)),
                Tail(rest))

\* The locals of parse_trading_plan before its loop (report_parser.py:41-51)
PlanLocals ==
    [in_buy_section |-> FALSE, in_bullish_section |-> FALSE,
     in_watch_section |-> FALSE, buy_candidates |-> << >>, watchlist |-> << >>,
     extracted |-> << >>]

InSection(locals, section) ==
    [locals EXCEPT !.in_buy_section = (section = "buy"),
                   !.in_bullish_section = (section = "bullish"),
                   !.in_watch_section = (section = "watch")]

\* `if code not in list: list.append(code)` (report_parser.py:88-93)
AppendIfNew(list, code) == IF InList(list, code) THEN list ELSE Append(list, code)

\* The routing of the codes taken from row number i (report_parser.py:84-94)
RECURSIVE RouteCodes(_, _, _)
RouteCodes(codes, i, locals) ==
    IF codes = << >> THEN locals
    ELSE LET code == Head(codes)
         IN  RouteCodes(Tail(codes), i,
                 IF locals.in_buy_section \/ locals.in_bullish_section
                 THEN [locals EXCEPT
                          !.buy_candidates = AppendIfNew(@, code),
                          !.extracted = Append(@, [line |-> i, list |-> "buy_candidates",
                                                   code |-> code])]
                 ELSE IF locals.in_watch_section
                 THEN [locals EXCEPT
                          !.watchlist = AppendIfNew(@, code),
                          !.extracted = Append(@, [line |-> i, list |-> "watchlist",
                                                   code |-> code])]
                 ELSE locals)

\* One pass of the loop over the lines (report_parser.py:53-94)
PlanStep(line, i, locals) ==
    IF Contains(line, "buy_plan") THEN InSection(locals, "buy")
    ELSE IF Contains(line, "bullish_candidates") THEN InSection(locals, "bullish")
    ELSE IF Contains(line, "watch_list")
            \/ (Contains(line, "watch") /\ Contains(line, "list"))
    THEN InSection(locals, "watch")
    ELSE IF line.start = "###" \/ line.start = "---"
    THEN IF ~ \E kw \in {"buy", "bullish", "watch"} : Contains(line, kw)
         THEN InSection(locals, "none")
         ELSE locals
    ELSE IF line.start = "|" /\ ~line.dashes
    THEN IF \E word \in {"code", "target", "item"} : Contains(line, word)
         THEN locals
         ELSE RouteCodes(TakenCodes(line), i, locals)
    ELSE locals

\* The loop of parse_trading_plan from line number i on
RECURSIVE PlanLoop(_, _, _)
PlanLoop(lines, i, locals) ==
    IF i > Len(lines) THEN locals
    ELSE PlanLoop(lines, i + 1, PlanStep(lines[i], i, locals))

\* parse_trading_plan (report_parser.py:16-103) on the lines of an existing plan
parse_trading_plan(lines) ==
    LET locals == PlanLoop(lines, 1, PlanLocals)
    IN  [buy_candidates |-> locals.buy_candidates,
         watchlist |-> locals.watchlist,
         all |-> Unique(<< >>, locals.buy_candidates \o locals.watchlist)]

\* report_parser.py:36-38: the plan file does not exist
EmptyPlan == [buy_candidates |-> << >>, watchlist |-> << >>, all |-> << >>]

\* The lines a plan is made of
Heading(start, phrases) == PlanLine(start, phrases, FALSE, << >>)

TableRow(phrases, cells) == PlanLine("|", phrases, FALSE, cells)

PlanLines ==
    { Heading("##", {"buy_plan"}),           \* ## buy_plan
      Heading("###", {"bullish_candidates"}),      \* ### bullish_candidates
      Heading("##", {"watch_list"}),       \* ## watch_list
      Heading("###", {}),                    \* ### risk notes
      Heading("##", {}),                     \* ## holdings review
      Heading("###", {"buy"}),              \* ### buy reasons
      TableRow({"code"}, <<<<"code", "2454">>, <<"name">>>>),  \* | code 2454 | name |
      PlanLine("|", {}, TRUE, << >>),                          \* |------|------|
      TableRow({}, <<<<"2330">>, <<"TSMC">>, <<"1180">>>>),  \* | 2330 | TSMC | 1180 |
      TableRow({}, <<<<"2317", "2330">>, <<"HonHai">>>>),        \* | 2317 2330 | HonHai |
      TableRow({}, <<<<"1">>, <<"2454">>, <<"MediaTek">>>>),     \* | 1 | 2454 | MediaTek |
      TableRow({"buy_plan"}, <<<<"2603">>, <<"Evergreen">>>>) }     \* | 2603 | Evergreen | as in buy_plan |

\* A table row with a stock code in its first field, and the section it
\* stands in ("buy" for the buy plan, "bullish" for the strong-buy candidates,
\* "watch" for the watch list, "other" for any other section)
PlanRows == [section : {"buy", "bullish", "watch", "other"}, code : {"2330", "2317"}]

\* The plan with these rows, each under the heading of its section
RECURSIVE PlanDocument(_)
PlanDocument(rows) ==
    IF rows = << >> THEN << >>
    ELSE LET row == Head(rows)
             heading == CASE row.section = "buy" -> Heading("##", {"buy_plan"})
                          [] row.section = "bullish" -> Heading("###", {"bullish_candidates"})
                          [] row.section = "watch" -> Heading("##", {"watch_list"})
                          [] OTHER -> Heading("###", {})
         IN  <<heading, TableRow({}, <<<<row.code>>>>)>> \o PlanDocument(Tail(rows))

ParsedResult(code, suggestion, score, bull, bear, bull_sigs, bear_sigs) ==
    [stock_code |-> code, suggestion |-> suggestion, score |-> score,
     bullish_count |-> bull, bearish_count |-> bear,
     bullish_signals |-> bull_sigs, bearish_signals |-> bear_sigs]

ParsedResults ==
    { ParsedResult("2330", "buy", 5, 4, 1, <<"ma_cross">>, << >>),
      ParsedResult("2317", "BUY", 1, 1, 0, <<"kd_cross">>, << >>),
      ParsedResult("2454", " Sell ", -3, 0, 3, << >>, <<"macd_dead", "rsi_high", "ma_break", "kd_dead">>),
      ParsedResult("  ", "buy", 9, 3, 0, <<"ma_cross">>, << >>),
      ParsedResult("2330", "", 30, 5, 0, << >>, << >>),
      ParsedResult("2603", "", -20, 0, 4, << >>, << >>),
      ParsedResult("2317", "buy", 0, 0, 2, << >>, <<"rsi_high">>),
      ParsedResult("2454", "Hold", 2, 2, 2, <<"ma_cross">>, <<"rsi_high">>),
      ParsedResult("2603", "buy", -10, 0, 3, << >>, <<"macd_dead">>),
      ParsedResult("2330", "buy", 12, 6, 0, <<"ma_cross", "kd_cross">>, << >>),
      ParsedResult("2317", "strong", 3, 1, 2, << >>, << >>) }

\* Result items given to the intraday engine: numbers as ints, as numeric
\* text, missing, empty, or as text that is no number
GivenResults ==
    { GivenResult("2330", "buy", IntValue(5), IntValue(4), IntValue(1), IntValue(1180),
                  <<"ma_cross">>, << >>),
      GivenResult("2317", "sell", Value("numeric_text", -2), IntValue(0), IntValue(2),
                  Value("numeric_text", 105), << >>, <<"rsi_high">>),
      GivenResult("2454", "", Value("none", 0), Value("none", 0), Value("none", 0),
                  Value("none", 0), << >>, << >>),
      GivenResult("2603", "watch", Value("empty_text", 0), IntValue(1), IntValue(0),
                  IntValue(50), <<"kd_cross">>, << >>),
      GivenResult("2330", "buy", Value("text", 0), IntValue(2), IntValue(0), IntValue(1180),
                  <<"ma_cross">>, << >>),
      GivenResult("2317", "hold", IntValue(1), Value("text", 0), IntValue(0), IntValue(105),
                  << >>, << >>),
      GivenResult("2454", "buy", IntValue(3), IntValue(1), IntValue(0), Value("text", 0),
                  <<"ma_cross">>, << >>),
      GivenResult("  ", "buy", Value("text", 0), IntValue(1), IntValue(0), IntValue(10),
                  << >>, << >>) }

\* Candidate lists handed to apply_risk_rules directly (any caller): scores
\* with more than two decimals (on a buy and on a reduce candidate), a
\* confidence that rounds up to the default threshold, equal scores, a score
\* below the smallest penalty.
GivenCandidates ==
    { CandidateSignal("2330", 68 * Pt, 0, 0, 68 * Pt, "buy", 65000, <<Reason("given", << >>)>>, "given"),
      CandidateSignal("2317", 68 * Pt, 0, 0, 68 * Pt, "buy", 50000, <<Reason("given", << >>)>>, "given"),
      CandidateSignal("2454", 70123, 2 * Pt, 0, 72123, "buy", 54996, << >>, "given"),
      CandidateSignal("2603", 3 * Pt, 0, 0, 3 * Pt, "buy", 90000, <<Reason("given", << >>)>>, "given"),
      CandidateSignal("2330", 48 * Pt, 0, 0, 48 * Pt, "watch", 45000, <<Reason("given", << >>)>>, "given"),
      CandidateSignal("2882", 80125, 0, 6 * Pt, 74125, "reduce", 70004, <<Reason("given", << >>)>>, "given"),
      CandidateSignal("2881", 20 * Pt, 0, 10 * Pt, 10 * Pt, "avoid", 30000, <<Reason("given", << >>)>>, "given") }

PreferenceValues ==
    {Preferences(FALSE, FALSE, 0, FALSE, 0, FALSE, 0)}
    \cup
    {Preferences(TRUE, hc, IF hc THEN c ELSE 0, hm, IF hm THEN m ELSE 0, hf, IF hf THEN f ELSE 0) :
        hc \in BOOLEAN, c \in {-5000, 0, 100000},
        hm \in BOOLEAN, m \in {-1, 0, 1, 2},
        hf \in BOOLEAN, f \in {10000, 60000, 150000}}

-----------------------------------------------------------------------------
(* Signal Engine / Risk Rules specification *)

NoPreferences == Preferences(FALSE, FALSE, 0, FALSE, 0, FALSE, 0)

RiskInit ==
    /\ phase = "init"
    /\ origin = "none"
    /\ candidates = << >>
    /\ preferences = NoPreferences
    /\ cloned_sorted = << >>
    /\ after_checks = << >>
    /\ adjusted = << >>
    /\ memory = NoCall
    /\ results_given = << >>
    /\ monitor_alerts = << >>

\* daily_job.py:89: build_daily_candidates_from_plan(parsed, today)
BuildDaily ==
    /\ phase = "init"
    /\ \E parsed_plan \in ParsedPlans :
          candidates' = build_daily_candidates_from_plan(parsed_plan)
    /\ origin' = "daily_plan"
    /\ phase' = "built"
    /\ UNCHANGED <<preferences, cloned_sorted, after_checks, adjusted, memory,
                   results_given>>
    /\ UNCHANGED monitor_alerts
    /\ UNCHANGED <<jobVars, alertVars, planVars, pidVars, skillVars>>

\* daily_job.py:84-89: parse_trading_plan(report_path), then
\* build_daily_candidates_from_plan(parsed, today)
BuildDailyFromPlan ==
    /\ phase = "init"
    /\ \E rows \in SeqsUpTo(PlanRows, MaxPlanRows) :
          candidates' = build_daily_candidates_from_plan(
                            parse_trading_plan(PlanDocument(rows)))
    /\ origin' = "daily_plan"
    /\ phase' = "built"
    /\ UNCHANGED <<preferences, cloned_sorted, after_checks, adjusted, memory,
                   results_given>>
    /\ UNCHANGED monitor_alerts
    /\ UNCHANGED <<jobVars, alertVars, planVars, pidVars, skillVars>>

\* monitor_job.py:271: build_intraday_candidates_from_results(parsed_results, now)
BuildIntraday ==
    /\ phase = "init"
    /\ \E results \in SeqsUpTo(ParsedResults, MaxResults) :
          /\ results_given' = [i \in 1..Len(results) |-> AsGiven(results[i])]
          /\ candidates' = build_intraday_candidates_from_results(results)
    /\ origin' = "intraday_monitor"
    /\ phase' = "built"
    /\ UNCHANGED <<preferences, cloned_sorted, after_checks, adjusted, memory>>
    /\ UNCHANGED monitor_alerts
    /\ UNCHANGED <<jobVars, alertVars, planVars, pidVars, skillVars>>

\* build_intraday_candidates_from_results called by any caller with result
\* items whose numeric fields hold whatever the source of the items put there
BuildIntradayFromGiven ==
    /\ phase = "init"
    /\ \E results \in SeqsUpTo(GivenResults, MaxResults) :
          LET call == build_intraday_candidates_call(results)
          IN  /\ results_given' = results
              /\ candidates' = call.candidates
              /\ phase' = IF call.raised THEN "raised" ELSE "built"
    /\ origin' = "intraday_monitor"
    /\ UNCHANGED <<preferences, cloned_sorted, after_checks, adjusted, memory>>
    /\ UNCHANGED monitor_alerts
    /\ UNCHANGED <<jobVars, alertVars, planVars, pidVars, skillVars>>

\* A caller that holds a candidate list of its own
GiveCandidates ==
    /\ phase = "init"
    /\ \E given \in SeqsUpTo(GivenCandidates, MaxCands) : candidates' = given
    /\ origin' = "given"
    /\ phase' = "built"
    /\ UNCHANGED <<preferences, cloned_sorted, after_checks, adjusted, memory,
                   results_given>>
    /\ UNCHANGED monitor_alerts
    /\ UNCHANGED <<jobVars, alertVars, planVars, pidVars, skillVars>>

\* apply_risk_rules(candidates, prefs): the whole call; cloned_sorted and
\* after_checks record its local list at two program points.
ApplyRiskRules ==
    /\ phase = "built"
    /\ \E prefs \in PreferenceValues :
          /\ preferences' = prefs
          /\ cloned_sorted' = ClonedSorted(candidates)
          /\ after_checks' = AfterChecks(candidates, prefs)
          /\ adjusted' = apply_risk_rules(candidates, prefs)
          /\ memory' = apply_risk_rules_in_memory(candidates, prefs)
    /\ phase' = "adjusted"
    /\ UNCHANGED <<origin, candidates, results_given>>
    /\ UNCHANGED monitor_alerts
    /\ UNCHANGED <<jobVars, alertVars, planVars, pidVars, skillVars>>

\* Candidates of a caller whose scores lie close together: two buys that
\* differ in the third decimal and are equal once rounded to two, one that
\* rounds up past them (it comes with a risk_penalty of three decimals),
\* buys with whole scores, one of them with a confidence
\* below the default threshold and one with reasons of its own, and a watch
\* candidate with the score of two of the buys
CloseCandidates ==
    { CandidateSignal("2330", 72123, 0, 0, 72123, "buy", 65000, << >>, "given"),
      CandidateSignal("2317", 72124, 0, 0, 72124, "buy", 70000, << >>, "given"),
      CandidateSignal("2454", 73360, 0, 1234, 72126, "buy", 60000, << >>, "given"),
      CandidateSignal("2603", 68 * Pt, 0, 0, 68 * Pt, "buy", 65000, << >>, "given"),
      CandidateSignal("2882", 80 * Pt, 0, 0, 80 * Pt, "buy", 50000, << >>, "given"),
      CandidateSignal("2881", 68 * Pt, 0, 0, 68 * Pt, "buy", 90000,
                      <<Reason("given", << >>), Reason("given_too", << >>)>>, "given"),
      CandidateSignal("1101", 68 * Pt, 0, 0, 68 * Pt, "watch", 45000,
                      <<Reason("given", << >>)>>, "given") }

\* A caller that holds candidates of distinct stocks with close scores
GiveCloseCandidates ==
    /\ phase = "init"
    /\ \E given \in SeqsUpTo(CloseCandidates, MaxCands) :
          /\ \A i, j \in 1..Len(given) : i # j => given[i].stock_code # given[j].stock_code
          /\ candidates' = given
    /\ origin' = "given"
    /\ phase' = "built"
    /\ UNCHANGED <<preferences, cloned_sorted, after_checks, adjusted, memory,
                   results_given>>
    /\ UNCHANGED monitor_alerts
    /\ UNCHANGED <<jobVars, alertVars, planVars, pidVars, skillVars>>

RiskNext ==
    \/ BuildDaily \/ BuildDailyFromPlan \/ BuildIntraday \/ BuildIntradayFromGiven
    \/ GiveCandidates \/ ApplyRiskRules

-----------------------------------------------------------------------------
(* ai_runner.py : skill preflight, provider invocation, artifact check *)

Absent == -1

\* Output files of the task's pattern, in sorted() order of their names: the
\* file named after today's date and one whose name sorts after it.
FileNames == <<"today", "later">>

NoPath == "none"

Present(fs, name) == fs[name] # Absent

\* _find_recent_output(glob_pattern, started_at), ai_runner.py:406-421
RECURSIVE RecentFrom(_, _, _, _)
RecentFrom(fs, start, i, found) ==
    IF i > Len(FileNames) THEN found
    ELSE LET name == FileNames[i]
         IN  IF Present(fs, name) /\ fs[name] >= start - MTIME_TOLERANCE
             THEN RecentFrom(fs, start, i + 1, name)
             ELSE RecentFrom(fs, start, i + 1, found)

\* _find_recent_output with the freshness filter left out
_find_recent_output_NoFilter(fs, start) ==
    IF Present(fs, "later") THEN "later"
    ELSE IF Present(fs, "today") THEN "today"
    ELSE NoPath

_find_recent_output(fs, start) == RecentFrom(fs, start, 1, NoPath)

\* find_latest_news_report / find_latest_trading_plan (ai_runner.py:839-876):
\* today's file when it exists, else the last of the sorted glob, else None
find_latest_report(fs) ==
    IF Present(fs, "today") THEN "today"
    ELSE IF Present(fs, "later") THEN "later"
    ELSE NoPath

Result(success, error) == [success |-> success, error |-> error]

NotCalled == Result(FALSE, "not_called")

\* _is_strict_skill_mode(skill_cfg), ai_runner.py:112-114: every mode other
\* than "warn" is strict
_is_strict_skill_mode(skill_mode) == skill_mode # "warn"

\* _prepare_task_prompt with every mode handled like warn mode
_prepare_task_prompt_AlwaysWarn(skill_mode, skill) ==
    IF skill_mode = "off" THEN [can_run |-> TRUE, prompt |-> "base", error |-> ""]
    ELSE IF skill = "synced" THEN [can_run |-> TRUE, prompt |-> "enforced", error |-> ""]
    ELSE [can_run |-> TRUE, prompt |-> "base", error |-> ""]

\* _prepare_task_prompt with the preamble added in warn mode although the
\* skill is missing
_prepare_task_prompt_WarnEnforces(skill_mode, skill) ==
    IF skill_mode = "off" THEN [can_run |-> TRUE, prompt |-> "base", error |-> ""]
    ELSE IF skill = "synced" \/ skill_mode = "warn"
         THEN [can_run |-> TRUE, prompt |-> "enforced", error |-> ""]
    ELSE [can_run |-> FALSE, prompt |-> "", error |-> skill]

\* _prepare_task_prompt(task_name, base_prompt, ai_cfg), ai_runner.py:302-354.
\* skill_mode: "off" (enabled false) or the configured mode ("strict", "warn",
\* or any other text, here "unknown"); skill: what _validate_required_skill
\* and _sync_repo_skills_to_provider_home give: "missing" (required skill in
\* no source root), "sync_failed", "synced".
_prepare_task_prompt(skill_mode, skill) ==
    IF skill_mode = "off" THEN [can_run |-> TRUE, prompt |-> "base", error |-> ""]
    ELSE IF skill = "missing"
         THEN IF _is_strict_skill_mode(skill_mode)
              THEN [can_run |-> FALSE, prompt |-> "", error |-> "missing"]
              ELSE [can_run |-> TRUE, prompt |-> "base", error |-> ""]
    ELSE IF skill = "sync_failed"
         THEN IF _is_strict_skill_mode(skill_mode)
              THEN [can_run |-> FALSE, prompt |-> "", error |-> "sync_failed"]
              ELSE [can_run |-> TRUE, prompt |-> "base", error |-> ""]
    ELSE [can_run |-> TRUE, prompt |-> "enforced", error |-> ""]

\* max_attempts = max(1, int(retry_cfg.get("max_attempts", 2))), ai_runner.py:433
\* with one attempt too many
max_attempts_OneMore(cfg) == Max(1, cfg.max_attempts) + 1

max_attempts(cfg) == Max(1, cfg.max_attempts)

\* How one subprocess.run call can end (ai_runner.py:453-486)
Outcomes == {"exit0", "nonzero", "timeout", "not_found", "exception"}

Invocation(n, text, outcome) == [attempt |-> n, prompt |-> text, outcome |-> outcome]

\* _build_provider_command without the check of the codex command_template
_build_provider_command_NoTemplateCheck(provider, command_template) ==
    IF provider \in {"claude", "codex"} THEN "command" ELSE "ValueError"

\* _build_provider_command(ai_cfg, prompt), ai_runner.py:357-403: a command
\* for claude, for codex a command unless ai.codex.command_template is empty,
\* ValueError for codex with an empty template and for any other provider
_build_provider_command(provider, command_template) ==
    IF provider = "claude" THEN "command"
    ELSE IF provider = "codex"
         THEN IF command_template = "" THEN "ValueError" ELSE "command"
    ELSE "ValueError"

\* ai.provider with ai.codex.command_template: the defaults, codex without and
\* with a template, a provider the runner does not know
ProviderSettings ==
    { <<"claude", "">>, <<"codex", "">>, <<"codex", "codex exec {prompt}">>,
      <<"gemini", "">> }

\* ai.* configuration: skill_enforcement (enabled, mode), provider and codex
\* command_template, retry.max_attempts, retry.backoff_seconds; provider_ok
\* says whether _build_provider_command returns a command for these settings
Configs ==
    { [skill_mode |-> mode, provider |-> setting[1], command_template |-> setting[2],
       provider_ok |-> _build_provider_command(setting[1], setting[2]) # "ValueError",
       max_attempts |-> n, backoff_seconds |-> backoff] :
        mode \in {"off", "strict", "warn", "unknown"},
        setting \in ProviderSettings,
        n \in 0..MaxAttemptsCfg,
        backoff \in {0, DEFAULT_BACKOFF_SECONDS} }

DefaultConfig ==
    [skill_mode |-> "strict", provider |-> "claude", command_template |-> "",
     provider_ok |-> TRUE, max_attempts |-> 2,
     backoff_seconds |-> DEFAULT_BACKOFF_SECONDS]

\* The output directory when a job starts: each file missing, older than the
\* tolerance, or exactly MTIME_TOLERANCE seconds older than the start
InitialFiles == [{"today", "later"} -> {Absent, 0, 1}]

NoFiles == [n \in {"today", "later"} |-> Absent]

Event(name, detail) == [event |-> name, detail |-> detail]

-----------------------------------------------------------------------------
(* jobs/news_job.py, jobs/daily_job.py, jobs/monitor_job.py *)

\* A datetime of the day of the run: the minute of the day, and whether its
\* seconds and microseconds are past the minute (1) or zero (0)
Moment(minute, past) == [minute |-> minute, past |-> past]

\* now.replace(hour=h, minute=m, second=0, microsecond=0), monitor_job.py:183-184
OnTheMinute(minute) == Moment(minute, 0)

\* a <= b on datetimes
NotAfter(a, b) == a.minute < b.minute \/ (a.minute = b.minute /\ a.past <= b.past)

\* start_time <= now <= end_time, monitor_job.py:186
InMonitorWindow(now, monitor_start, monitor_end) ==
    /\ NotAfter(OnTheMinute(monitor_start), now)
    /\ NotAfter(now, OnTheMinute(monitor_end))

\* The times at which the job is invoked: the minute before monitor_start,
\* monitor_start, monitor_end and the minute after, each on the minute and
\* some seconds or microseconds past it
MonitorMoments ==
    { Moment(minute, past) :
         minute \in {MONITOR_START - 1, MONITOR_START, MONITOR_END, MONITOR_END + 1},
         past \in {0, 1} }

JobInit ==
    /\ job = "none"
    /\ pc = "idle"
    /\ config = DefaultConfig
    /\ trading_day = TRUE
    /\ in_window = TRUE
    /\ monitor_now = OnTheMinute(MONITOR_START)
    /\ events = << >>
    /\ runner_calls = 0
    /\ skill_state = "unchecked"
    /\ prompt = "none"
    /\ attempt = 0
    /\ invocations = << >>
    /\ sleeps = 0
    /\ ai_result = "none"
    /\ runner_result = NotCalled
    /\ clock = 3
    /\ started_at = 0
    /\ files = NoFiles
    /\ report_path = NoPath
    /\ persisted = FALSE
    /\ emails = 0
    /\ raised = FALSE

Log(name, detail) == events' = Append(events, Event(name, detail))

\* job_news_stock_picker up to the call of the runner (news_job.py:22-41):
\* no calendar check, the start event is logged at once
NewsBegin ==
    /\ pc = "idle"
    /\ \E cfg \in Configs, td \in BOOLEAN, fs \in InitialFiles :
          /\ config' = cfg
          /\ trading_day' = td
          /\ files' = fs
    /\ job' = "news"
    /\ Log("start", "")
    /\ pc' = "call_runner"
    /\ UNCHANGED <<in_window, monitor_now, runner_calls, skill_state, prompt, attempt, invocations,
                   sleeps, ai_result, runner_result, clock, started_at, report_path,
                   persisted, emails, raised>>
    /\ UNCHANGED <<riskVars, alertVars, planVars, pidVars, skillVars>>

\* job_daily_analysis with the calendar check of daily_job.py:38 left out
DailyBegin_NoCalendar ==
    /\ pc = "idle"
    /\ \E cfg \in Configs, td \in BOOLEAN, fs \in InitialFiles :
          /\ config' = cfg
          /\ trading_day' = td
          /\ files' = fs
    /\ job' = "daily"
    /\ Log("start", "")
    /\ pc' = "call_runner"
    /\ UNCHANGED <<in_window, monitor_now, runner_calls, skill_state, prompt, attempt, invocations,
                   sleeps, ai_result, runner_result, clock, started_at, report_path,
                   persisted, emails, raised>>
    /\ UNCHANGED <<riskVars, alertVars, planVars, pidVars, skillVars>>

\* job_daily_analysis up to the call of the runner (daily_job.py:32-63)
DailyBegin ==
    /\ pc = "idle"
    /\ \E cfg \in Configs, td \in BOOLEAN, fs \in InitialFiles :
          /\ config' = cfg
          /\ trading_day' = td
          /\ files' = fs
          /\ IF ~td
             THEN Log("skipped", "non_trading_day") /\ pc' = "done"
             ELSE Log("start", "") /\ pc' = "call_runner"
    /\ job' = "daily"
    /\ UNCHANGED <<in_window, monitor_now, runner_calls, skill_state, prompt, attempt, invocations,
                   sleeps, ai_result, runner_result, clock, started_at, report_path,
                   persisted, emails, raised>>
    /\ UNCHANGED <<riskVars, alertVars, planVars, pidVars, skillVars>>

\* job_intraday_monitor up to the start event (monitor_job.py:159-208), with
\* the default schedule
MonitorBegin ==
    /\ pc = "idle"
    /\ \E cfg \in Configs, td \in BOOLEAN, now \in MonitorMoments :
          /\ config' = cfg
          /\ trading_day' = td
          /\ monitor_now' = now
          /\ in_window' = InMonitorWindow(now, MONITOR_START, MONITOR_END)
          /\ IF ~td
             THEN Log("skipped", "non_trading_day") /\ pc' = "done"
             ELSE IF ~InMonitorWindow(now, MONITOR_START, MONITOR_END)
             THEN Log("skipped", "outside_monitor_window") /\ pc' = "done"
             ELSE Log("start", "") /\ pc' = "load_plan"
    /\ job' = "monitor"
    /\ UNCHANGED <<runner_calls, skill_state, prompt, attempt, invocations,
                   sleeps, ai_result, runner_result, clock, started_at, files,
                   report_path, persisted, emails, raised>>
    /\ UNCHANGED <<riskVars, alertVars, planVars, pidVars, skillVars>>

\* job_intraday_monitor: locating and parsing the day's plan
\* (monitor_job.py:210-243).  plan: "missing" (no trading_plan_*.md at all),
\* "unreadable" (parse_trading_plan raises on read), "empty" (no stock in the
\* plan), "stocks".
MonitorLoadPlan ==
    /\ pc = "load_plan"
    /\ \E plan \in {"missing", "unreadable", "empty", "stocks"} :
          CASE plan = "missing" ->
                  Log("failed", "missing_daily_plan") /\ pc' = "done" /\ UNCHANGED raised
            [] plan = "unreadable" ->
                  raised' = TRUE /\ pc' = "done" /\ UNCHANGED events
            [] plan = "empty" ->
                  Log("skipped", "empty_stock_list") /\ pc' = "done" /\ UNCHANGED raised
            [] plan = "stocks" ->
                  pc' = "call_runner" /\ UNCHANGED <<events, raised>>
    /\ UNCHANGED <<job, config, trading_day, in_window, monitor_now, runner_calls, skill_state,
                   prompt, attempt, invocations, sleeps, ai_result, runner_result,
                   clock, started_at, files, report_path, persisted, emails>>
    /\ UNCHANGED <<riskVars, alertVars, planVars, pidVars, skillVars>>

\* The run_* function up to the call of run_ai_task: the skill preflight
\* (ai_runner.py:505-511, 555-561, 690-697).  A failed preflight returns
\* (False, "", error_message) at once.
RunnerPrepare ==
    /\ pc = "call_runner"
    /\ runner_calls' = runner_calls + 1
    /\ \E skill \in {"missing", "sync_failed", "synced"} :
          LET prep == _prepare_task_prompt(config.skill_mode, skill)
          IN  /\ skill_state' = IF config.skill_mode = "off" THEN "unchecked" ELSE skill
              /\ IF prep.can_run
                 THEN /\ prompt' = prep.prompt
                      /\ started_at' = clock
                      /\ attempt' = 1
                      /\ pc' = "attempt"
                      /\ UNCHANGED runner_result
                 ELSE /\ runner_result' = Result(FALSE, prep.error)
                      /\ pc' = "returned"
                      /\ UNCHANGED <<prompt, started_at, attempt>>
    /\ UNCHANGED <<job, config, trading_day, in_window, monitor_now, events, invocations, sleeps,
                   ai_result, clock, files, report_path, persisted, emails, raised>>
    /\ UNCHANGED <<riskVars, alertVars, planVars, pidVars, skillVars>>

\* run_ai_task when _build_provider_command raises (ai_runner.py:442-446):
\* failure is returned before subprocess.run is reached, and the run_*
\* function passes it on (ai_runner.py:513-514)
RunAiTaskConfigError ==
    /\ pc = "attempt"
    /\ ~config.provider_ok
    /\ ai_result' = "failure"
    /\ runner_result' = Result(FALSE, "provider_config")
    /\ pc' = "returned"
    /\ UNCHANGED <<job, config, trading_day, in_window, monitor_now, events, runner_calls,
                   skill_state, prompt, attempt, invocations, sleeps, clock,
                   started_at, files, report_path, persisted, emails, raised>>
    /\ UNCHANGED <<riskVars, alertVars, planVars, pidVars, skillVars>>

\* What the provider leaves in the output directory during one attempt
WriteFile(fs, name, now) == IF name = "none" THEN fs ELSE [fs EXCEPT ![name] = now]

\* One iteration of run_ai_task's loop (ai_runner.py:441-489): the command is
\* invoked; exit code 0 returns success, anything else is a failed attempt,
\* followed by the backoff sleep and the next attempt or, after the last
\* attempt, by the failure return (ai_runner.py:491, 513-514).
ProviderAttempt ==
    /\ pc = "attempt"
    /\ config.provider_ok
    /\ attempt <= max_attempts(config)
    /\ \E outcome \in Outcomes,
          written \in (IF job = "monitor" THEN {"none"} ELSE {"none", "today", "later"}) :
          /\ invocations' = Append(invocations, Invocation(attempt, prompt, outcome))
          /\ files' = WriteFile(files, written, clock + 1)
          /\ IF outcome = "exit0"
             THEN /\ ai_result' = "success"
                  /\ pc' = "verify"
                  /\ clock' = clock + 1
                  /\ UNCHANGED <<attempt, sleeps, runner_result>>
             ELSE IF attempt < max_attempts(config)
             THEN /\ attempt' = attempt + 1
                  /\ sleeps' = IF config.backoff_seconds > 0 THEN sleeps + 1 ELSE sleeps
                  /\ clock' = clock + 1 + config.backoff_seconds
                  /\ UNCHANGED <<ai_result, pc, runner_result>>
             ELSE /\ ai_result' = "failure"
                  /\ runner_result' = Result(FALSE, "provider_failed")
                  /\ pc' = "returned"
                  /\ clock' = clock + 1
                  /\ UNCHANGED <<attempt, sleeps>>
    /\ UNCHANGED <<job, config, trading_day, in_window, monitor_now, events, runner_calls,
                   skill_state, prompt, started_at, report_path, persisted,
                   emails, raised>>
    /\ UNCHANGED <<riskVars, alertVars, planVars, pidVars, skillVars>>

\* The run_* function after run_ai_task returned success: news and daily look
\* for a fresh output file (ai_runner.py:516-524, 566-574); monitor parses
\* the provider's stdout (ai_runner.py:709-736), which is unparseable, holds
\* no usable result, or holds results.
RunnerVerify ==
    /\ pc = "verify"
    /\ IF job = "monitor"
       THEN \E stdout \in {"unparseable", "no_results", "results"} :
               runner_result' = IF stdout = "results" THEN Result(TRUE, "")
                                ELSE Result(FALSE, stdout)
       ELSE runner_result' =
               IF _find_recent_output(files, started_at) = NoPath
               THEN Result(FALSE, "no_recent_output")
               ELSE Result(TRUE, "")
    /\ pc' = "returned"
    /\ UNCHANGED <<job, config, trading_day, in_window, monitor_now, events, runner_calls,
                   skill_state, prompt, attempt, invocations, sleeps, ai_result,
                   clock, started_at, files, report_path, persisted, emails, raised>>
    /\ UNCHANGED <<riskVars, alertVars, planVars, pidVars, skillVars>>

\* The job after the runner returned (news_job.py:43-56, 73-82;
\* daily_job.py:67-80, 112-121; monitor_job.py:260-269)
JobHandleResult ==
    /\ pc = "returned"
    /\ IF ~runner_result.success
       THEN /\ Log("failed", "ai_task_failed")
            /\ pc' = "done"
            /\ UNCHANGED report_path
       ELSE IF job = "monitor"
       THEN /\ pc' = "persist"
            /\ UNCHANGED <<events, report_path>>
       ELSE LET path == find_latest_report(files)
            IN  /\ report_path' = path
                /\ IF path = NoPath
                   THEN Log("failed", "missing_report") /\ pc' = "done"
                   ELSE pc' = "read_report" /\ UNCHANGED events
    /\ UNCHANGED <<job, config, trading_day, in_window, monitor_now, runner_calls, skill_state,
                   prompt, attempt, invocations, sleeps, ai_result, runner_result,
                   clock, started_at, files, persisted, emails, raised>>
    /\ UNCHANGED <<riskVars, alertVars, planVars, pidVars, skillVars>>

\* An exception in the job body: news and daily catch it and log failed
\* (news_job.py:84-92, daily_job.py:123-132); monitor has no handler, the
\* exception leaves job_intraday_monitor.
JobException ==
    IF job = "monitor"
    THEN raised' = TRUE /\ pc' = "done" /\ UNCHANGED events
    ELSE Log("failed", "exception") /\ pc' = "done" /\ UNCHANGED raised

\* Path(report_path).read_text(...) (news_job.py:57, daily_job.py:81), which
\* may raise
JobReadReport ==
    /\ pc = "read_report"
    /\ \E ok \in BOOLEAN :
          IF ok
          THEN /\ pc' = IF job = "daily" THEN "persist" ELSE "notify"
               /\ UNCHANGED <<events, raised>>
          ELSE JobException
    /\ UNCHANGED <<job, config, trading_day, in_window, monitor_now, runner_calls, skill_state,
                   prompt, attempt, invocations, sleeps, ai_result, runner_result,
                   clock, started_at, files, report_path, persisted, emails>>
    /\ UNCHANGED <<riskVars, alertVars, planVars, pidVars, skillVars>>

\* The persisting step left out: the job goes on to the notification with
\* nothing written
JobPersist_Skipped ==
    /\ pc = "persist"
    /\ pc' = "notify"
    /\ UNCHANGED <<job, config, trading_day, in_window, monitor_now, events, runner_calls,
                   skill_state, prompt, attempt, invocations, sleeps, ai_result,
                   runner_result, clock, started_at, files, report_path,
                   persisted, emails, raised>>
    /\ UNCHANGED <<riskVars, alertVars, planVars, pidVars, skillVars>>

\* Parsing, scoring, risk rules and _write_candidate_outputs
\* (daily_job.py:84-96, monitor_job.py:271-281); writing may raise
JobPersist ==
    /\ pc = "persist"
    /\ \E ok \in BOOLEAN :
          IF ok
          THEN /\ persisted' = TRUE
               /\ pc' = "notify"
               /\ UNCHANGED <<events, raised>>
          ELSE JobException /\ UNCHANGED persisted
    /\ UNCHANGED <<job, config, trading_day, in_window, monitor_now, runner_calls, skill_state,
                   prompt, attempt, invocations, sleeps, ai_result, runner_result,
                   clock, started_at, files, report_path, emails>>
    /\ UNCHANGED <<riskVars, alertVars, planVars, pidVars, skillVars>>

\* Notification and the completed event (news_job.py:60-72,
\* daily_job.py:98-111, monitor_job.py:283-315).  EmailSender(config["email"])
\* raises when the email settings are incomplete; monitor sends only when an
\* alert was triggered, and its completed event carries alert_count.  A send
\* that fails at the SMTP server returns False (email_sender.py:63-73) and
\* the job goes on as after a delivered one: emails counts the calls.
JobNotify ==
    /\ pc = "notify"
    /\ \E has_alerts \in (IF job = "monitor" THEN BOOLEAN ELSE {TRUE}),
          email_ok \in BOOLEAN :
          IF ~has_alerts
          THEN /\ email_ok
               /\ Log("completed", "alert_count_zero")
               /\ pc' = "done"
               /\ UNCHANGED <<emails, raised>>
          ELSE IF email_ok
          THEN /\ emails' = emails + 1
               /\ Log("completed", IF job = "monitor" THEN "alert_count_positive" ELSE "")
               /\ pc' = "done"
               /\ UNCHANGED raised
          ELSE JobException /\ UNCHANGED emails
    /\ UNCHANGED <<job, config, trading_day, in_window, monitor_now, runner_calls, skill_state,
                   prompt, attempt, invocations, sleeps, ai_result, runner_result,
                   clock, started_at, files, report_path, persisted>>
    /\ UNCHANGED <<riskVars, alertVars, planVars, pidVars, skillVars>>

JobNext ==
    \/ NewsBegin \/ DailyBegin \/ MonitorBegin \/ MonitorLoadPlan
    \/ RunnerPrepare \/ RunAiTaskConfigError \/ ProviderAttempt \/ RunnerVerify
    \/ JobHandleResult \/ JobReadReport \/ JobPersist \/ JobNotify

-----------------------------------------------------------------------------
(* report_parser.py : parse_single_stock_result, check_alert *)

\* A parsed single-stock result (report_parser.py:151-162); price in
\* hundredths
StockResult(code, price, suggestion, score, bull_sigs, bear_sigs) ==
    [stock_code |-> code, price |-> price, suggestion |-> suggestion, score |-> score,
     bullish_count |-> Len(bull_sigs), bearish_count |-> Len(bear_sigs),
     bullish_signals |-> bull_sigs, bearish_signals |-> bear_sigs]

NoResult == StockResult("", 0, "", 0, << >>, << >>)

\* What a parser call gives: None, a result, or an exception that leaves it
ReturnedNone == [kind |-> "None", result |-> NoResult, error |-> ""]
Returned(result) == [kind |-> "result", result |-> result, error |-> ""]
Raised(error) == [kind |-> "raised", result |-> NoResult, error |-> error]

\* _to_int / _to_float (report_parser.py:124-135): the number, or the default
\* 0 when int()/float() raises TypeError or ValueError
_to_number(x) == IF x.kind \in {"int", "numeric_text"} THEN x.value ELSE 0

\* The value under bullish_signals or bearish_signals: a list of texts, a
\* text (its characters, each comma apart and every run between commas as one
\* piece), or None
SignalList(items) == [kind |-> "list", items |-> items]
SignalText(chars) == [kind |-> "str", items |-> chars]
NoSignals == [kind |-> "none", items |-> << >>]

\* str.split(","): the pieces between the commas, "" where two commas meet
\* or the text starts or ends with one
RECURSIVE SplitAtCommas(_, _)
SplitAtCommas(chars, piece) ==
    IF chars = << >> THEN <<piece>>
    ELSE IF Head(chars) = "," THEN <<piece>> \o SplitAtCommas(Tail(chars), "")
    ELSE SplitAtCommas(Tail(chars), Head(chars))

\* [item.strip() for item in items if item.strip()]
StrippedNonBlank(items) ==
    LET kept == SelectSeq(items, LAMBDA item : StripText(item) # "")
    IN  [i \in 1..Len(kept) |-> StripText(kept[i])]

\* _normalize_signals that knows lists only
_normalize_signals_ListOnly(value) ==
    IF value.kind = "list" THEN StrippedNonBlank(value.items) ELSE << >>

\* _normalize_signals (report_parser.py:138-143)
_normalize_signals(value) ==
    IF value.kind = "list" THEN StrippedNonBlank(value.items)
    ELSE IF value.kind = "str" THEN StrippedNonBlank(SplitAtCommas(value.items, ""))
    ELSE << >>

\* The text given to the parser.
\*   format "empty": the empty text; "plain": neither front matter nor JSON;
\*   "frontmatter": starts with a --- line; shape "unterminated" (no closing
\*     ---), "bad_yaml", "not_mapping" (YAML that is no mapping), "mapping";
\*   "json": shape "array", "number", "null" (valid JSON, no object), "object".
\* keys: the keys of the mapping/object; price_is_object: in JSON, price holds
\* an object ({"close": ...}); error: the JSON object's error flag; the other
\* fields are the values under the keys.
RawText(format, shape, keys, price_is_object, error, code, suggestion, score, price, bull_sigs, bear_sigs) ==
    [format |-> format, shape |-> shape, keys |-> keys,
     price_is_object |-> price_is_object, error |-> error,
     stock_code |-> code, suggestion |-> suggestion, score |-> score, price |-> price,
     bullish_signals |-> bull_sigs, bearish_signals |-> bear_sigs]

\* _build_single_stock_result (report_parser.py:146-162); a key the caller
\* did not find has the caller's default
_build_single_stock_result(raw, keys) ==
    StockResult(IF "stock_code" \in keys THEN StripText(raw.stock_code) ELSE "",
                IF "price" \in keys THEN _to_number(raw.price) ELSE 0,
                IF "suggestion" \in keys THEN NormalizeText(raw.suggestion) ELSE "",
                IF "score" \in keys THEN _to_number(raw.score) ELSE 0,
                IF "bullish_signals" \in keys
                THEN _normalize_signals(raw.bullish_signals) ELSE << >>,
                IF "bearish_signals" \in keys
                THEN _normalize_signals(raw.bearish_signals) ELSE << >>)

\* _parse_markdown_frontmatter (report_parser.py:188-215): the mapping's keys
\* are usable, or None
FrontmatterIsMapping(raw) == raw.format = "frontmatter" /\ raw.shape = "mapping"

RequiredFields ==
    {"stock_code", "stock_name", "suggestion", "score", "bullish_signals",
     "bearish_signals", "price_close"}

\* The keys as _build_single_stock_result's caller names them: price_close of
\* the front matter is passed as price
AsDataKeys(keys) ==
    (keys \ {"price_close"}) \cup (IF "price_close" \in keys THEN {"price"} ELSE {})

\* _parse_single_stock_markdown that builds a result from the keys it finds
_parse_single_stock_markdown_Partial(raw) ==
    IF ~FrontmatterIsMapping(raw) \/ raw.keys = {} THEN ReturnedNone
    ELSE Returned(_build_single_stock_result(raw, AsDataKeys(raw.keys)))

\* _parse_single_stock_markdown (report_parser.py:218-247)
_parse_single_stock_markdown(raw) ==
    IF ~FrontmatterIsMapping(raw) \/ raw.keys = {} THEN ReturnedNone
    ELSE IF ~(RequiredFields \subseteq raw.keys) THEN ReturnedNone
    ELSE Returned(_build_single_stock_result(raw, AsDataKeys(raw.keys)))

\* _parse_single_stock_json (report_parser.py:165-185): json.loads fails on
\* anything that is not JSON (None); data.get on a value that is no object,
\* and .get('close') on a price that is no object, raise AttributeError
_parse_single_stock_json(raw) ==
    IF raw.format # "json" THEN ReturnedNone
    ELSE IF raw.shape # "object" THEN Raised("AttributeError")
    ELSE IF "error" \in raw.keys /\ raw.error THEN ReturnedNone
    ELSE IF "price" \in raw.keys /\ ~raw.price_is_object THEN Raised("AttributeError")
    ELSE Returned(_build_single_stock_result(raw, raw.keys))

\* parse_single_stock_result (report_parser.py:250-285)
parse_single_stock_result(raw) ==
    IF raw.format = "empty" THEN ReturnedNone
    ELSE LET from_markdown == _parse_single_stock_markdown(raw)
         IN  IF from_markdown.kind # "None" THEN from_markdown
             ELSE _parse_single_stock_json(raw)

\* signal_threshold settings
Thresholds(has_bull, min_bull, has_bear, min_bear) ==
    [has_min_bullish_signals |-> has_bull, min_bullish_signals |-> min_bull,
     has_min_bearish_signals |-> has_bear, min_bearish_signals |-> min_bear]

NoThresholds == Thresholds(FALSE, 0, FALSE, 0)

Alert(signal_type, code, price, reason) ==
    [signal_type |-> signal_type, stock_code |-> code, price |-> price, reason |-> reason]

\* check_alert returned None
NoAlert == Alert("none", "", 0, "")

\* check_alert with the signal counts looked at before the suggestion
check_alert_CountsFirst(outcome, thresholds) ==
    IF outcome.kind # "result" THEN NoAlert
    ELSE LET r == outcome.result
             min_bull == IF thresholds.has_min_bullish_signals
                         THEN thresholds.min_bullish_signals ELSE DEFAULT_MIN_SIGNALS
             min_bear == IF thresholds.has_min_bearish_signals
                         THEN thresholds.min_bearish_signals ELSE DEFAULT_MIN_SIGNALS
         IN  IF r.bullish_count >= min_bull /\ r.score > 0
             THEN Alert("buy", r.stock_code, r.price, "bullish_signals")
             ELSE IF r.bearish_count >= min_bear /\ r.score < 0
             THEN Alert("sell", r.stock_code, r.price, "bearish_signals")
             ELSE IF r.suggestion = "buy"
             THEN Alert("buy", r.stock_code, r.price, "suggestion")
             ELSE IF r.suggestion = "sell"
             THEN Alert("sell", r.stock_code, r.price, "suggestion")
             ELSE NoAlert

\* check_alert(parsed_result, threshold_config), report_parser.py:288-346
check_alert(outcome, thresholds) ==
    IF outcome.kind # "result" THEN NoAlert
    ELSE LET r == outcome.result
             min_bull == IF thresholds.has_min_bullish_signals
                         THEN thresholds.min_bullish_signals ELSE DEFAULT_MIN_SIGNALS
             min_bear == IF thresholds.has_min_bearish_signals
                         THEN thresholds.min_bearish_signals ELSE DEFAULT_MIN_SIGNALS
         IN  IF r.suggestion = "buy"
             THEN Alert("buy", r.stock_code, r.price, "suggestion")
             ELSE IF r.suggestion = "sell"
             THEN Alert("sell", r.stock_code, r.price, "suggestion")
             ELSE IF r.bullish_count >= min_bull /\ r.score > 0
             THEN Alert("buy", r.stock_code, r.price, "bullish_signals")
             ELSE IF r.bearish_count >= min_bear /\ r.score < 0
             THEN Alert("sell", r.stock_code, r.price, "bearish_signals")
             ELSE NoAlert

-----------------------------------------------------------------------------
(* jobs/monitor_job.py : suggested quantities *)

\* Units: capital in currency units, ratios in hundredths (20 is 0.2), prices
\* in hundredths of a currency unit; so capital * ratio is the budget in
\* hundredths of a currency unit.

\* _calculate_buy_quantity without the budget < price check and rounding up
_calculate_buy_quantity_RoundUp(capital, buy_ratio, price) ==
    IF capital <= 0 \/ buy_ratio <= 0 \/ price <= 0 THEN 0
    ELSE ((capital * buy_ratio) + price - 1) \div price

\* _calculate_buy_quantity(capital, buy_ratio, price), monitor_job.py:95-103
_calculate_buy_quantity(capital, buy_ratio, price) ==
    IF capital <= 0 \/ buy_ratio <= 0 \/ price <= 0 THEN 0
    ELSE LET budget == capital * buy_ratio
         IN  IF budget < price THEN 0 ELSE budget \div price

\* _calculate_sell_quantity that leaves a floor of 0 as it is
_calculate_sell_quantity_NoMinimum(holding_quantity, sell_ratio) ==
    IF holding_quantity <= 0 \/ sell_ratio <= 0 THEN 0
    ELSE LET suggested_quantity == (holding_quantity * sell_ratio) \div 100
         IN  IF suggested_quantity > holding_quantity THEN holding_quantity
             ELSE suggested_quantity

\* _calculate_sell_quantity(holding_quantity, sell_ratio), monitor_job.py:106-115
_calculate_sell_quantity(holding_quantity, sell_ratio) ==
    IF holding_quantity <= 0 \/ sell_ratio <= 0 THEN 0
    ELSE LET suggested_quantity == (holding_quantity * sell_ratio) \div 100
         IN  IF suggested_quantity < 1 THEN 1
             ELSE IF suggested_quantity > holding_quantity THEN holding_quantity
             ELSE suggested_quantity

\* _to_float(value, default), monitor_job.py:34-38
_to_float(value, default) ==
    IF value.kind \in {"int", "numeric_text"} THEN value.value ELSE default

\* _normalize_ratio(value, default_ratio), monitor_job.py:42-51, in hundredths:
\* a value above 1 is read as a percentage, then the ratio is cut to [0, 1]
_normalize_ratio(value, default_ratio) ==
    LET given == _to_float(value, default_ratio)
        ratio == IF given > 100 THEN given \div 100 ELSE given
    IN  IF ratio < 0 THEN 0 ELSE IF ratio > 100 THEN 100 ELSE ratio

Sizing(capital, buy_ratio, sell_ratio, holding_quantity) ==
    [capital |-> capital, buy_ratio |-> buy_ratio, sell_ratio |-> sell_ratio,
     holding_quantity |-> holding_quantity]

NoSizing == Sizing(0, 0, 0, 0)

Enriched(given, suggested_quantity, quantity_note) ==
    [alert |-> given, suggested_quantity |-> suggested_quantity,
     quantity_note |-> quantity_note]

NotEnriched == Enriched(NoAlert, 0, "")

\* _attach_quantity_to_alert (monitor_job.py:118-156) on an alert of
\* check_alert; holding_quantity is positions_map.get(stock_code, 0)
_attach_quantity_to_alert(given, capital, buy_ratio, sell_ratio, holding_quantity) ==
    IF given.signal_type = "buy"
    THEN LET suggested_quantity == _calculate_buy_quantity(capital, buy_ratio, given.price)
         IN  Enriched(given, suggested_quantity,
                      IF suggested_quantity > 0 THEN "budget" ELSE "no_budget")
    ELSE IF given.signal_type = "sell"
    THEN Enriched(given, _calculate_sell_quantity(holding_quantity, sell_ratio),
                  IF holding_quantity > 0 THEN "holding" ELSE "no_holding")
    ELSE Enriched(given, 0, "unsupported")

\* A result of the batch analysis as check_alert reads it
BatchResult(item) ==
    [stock_code |-> item.stock_code, price |-> item.price.value,
     suggestion |-> item.suggestion, score |-> item.score.value,
     bullish_count |-> item.bullish_count.value,
     bearish_count |-> item.bearish_count.value]

\* The alert loop with a buy alert only for a stock whose candidate is still a buy
AlertLoop_BuyNeedsCandidate(parsed_results, risk_adjusted_candidates, threshold, capital) ==
    LET checked == [i \in 1..Len(parsed_results) |->
                       check_alert(Returned(BatchResult(parsed_results[i])), threshold)]
        StillBuy(a) == \E j \in 1..Len(risk_adjusted_candidates) :
                          /\ risk_adjusted_candidates[j].stock_code = a.stock_code
                          /\ risk_adjusted_candidates[j].action = "buy"
        triggered == SelectSeq(checked, LAMBDA a : a # NoAlert /\ (a.signal_type = "buy" => StillBuy(a)))
    IN  [i \in 1..Len(triggered) |->
            _attach_quantity_to_alert(triggered[i], capital, 20, 30, 0)]

\* The loop of monitor_job.py:283-298 over parsed_results: check_alert, and
\* for an alert the quantity, appended to alerts. risk_adjusted_candidates of
\* line 275 is in scope and is not read.
AlertLoop(parsed_results, risk_adjusted_candidates, threshold, capital) ==
    LET checked == [i \in 1..Len(parsed_results) |->
                       check_alert(Returned(BatchResult(parsed_results[i])), threshold)]
        triggered == SelectSeq(checked, LAMBDA a : a # NoAlert)
    IN  [i \in 1..Len(triggered) |->
            _attach_quantity_to_alert(triggered[i], capital, 20, 30, 0)]

-----------------------------------------------------------------------------
(* Inputs of the parsing and alert specification *)

AllKeys ==
    {"stock_code", "stock_name", "suggestion", "score", "bullish_signals",
     "bearish_signals"}

RawTexts ==
    { RawText("empty", "", {}, FALSE, FALSE, "", "", Value("none", 0), Value("none", 0),
              SignalList(<< >>), SignalList(<< >>)),
      RawText("plain", "", {}, FALSE, FALSE, "", "", Value("none", 0), Value("none", 0),
              SignalList(<< >>), SignalList(<< >>)),
      RawText("frontmatter", "unterminated", {}, FALSE, FALSE, "2330", "buy",
              IntValue(5), IntValue(118000), SignalList(<<"ma_cross">>), SignalList(<< >>)),
      RawText("frontmatter", "bad_yaml", {}, FALSE, FALSE, "", "", Value("none", 0),
              Value("none", 0), SignalList(<< >>), SignalList(<< >>)),
      RawText("frontmatter", "not_mapping", {}, FALSE, FALSE, "", "", Value("none", 0),
              Value("none", 0), SignalList(<< >>), SignalList(<< >>)),
      RawText("frontmatter", "mapping", {}, FALSE, FALSE, "", "", Value("none", 0),
              Value("none", 0), SignalList(<< >>), SignalList(<< >>)),
      RawText("frontmatter", "mapping", AllKeys, FALSE, FALSE, "2330", "buy",
              IntValue(5), IntValue(118000), SignalList(<<"ma_cross">>), SignalList(<< >>)),
      RawText("frontmatter", "mapping", AllKeys \cup {"price_close"}, FALSE, FALSE, "2330",
              "BUY", IntValue(5), IntValue(118000), SignalList(<<"ma_cross", "  ", "kd_cross">>), SignalList(<< >>)),
      RawText("frontmatter", "mapping", AllKeys \cup {"price_close"}, FALSE, FALSE, "2454",
              " Sell ", Value("text", 0), Value("text", 0), SignalList(<< >>),
              SignalList(<<"macd_dead", "rsi_high", "ma_break">>)),
      RawText("json", "array", {}, FALSE, FALSE, "", "", Value("none", 0), Value("none", 0),
              SignalList(<< >>), SignalList(<< >>)),
      RawText("json", "number", {}, FALSE, FALSE, "", "", Value("none", 0), Value("none", 0),
              SignalList(<< >>), SignalList(<< >>)),
      RawText("json", "null", {}, FALSE, FALSE, "", "", Value("none", 0), Value("none", 0),
              SignalList(<< >>), SignalList(<< >>)),
      RawText("json", "object", AllKeys \cup {"price"}, TRUE, FALSE, "2317", "Hold",
              Value("numeric_text", 2), IntValue(10500), SignalList(<<"ma_cross", "kd_cross">>),
              SignalList(<<"rsi_high">>)),
      RawText("json", "object", AllKeys \cup {"price"}, FALSE, FALSE, "2317", "buy",
              IntValue(2), IntValue(10500), SignalList(<<"ma_cross">>), SignalList(<< >>)),
      RawText("json", "object", AllKeys \cup {"price", "error"}, TRUE, TRUE, "2317", "buy",
              IntValue(2), IntValue(10500), SignalList(<<"ma_cross">>), SignalList(<< >>)),
      RawText("json", "object", {"stock_code"}, FALSE, FALSE, "2603", "", Value("none", 0),
              Value("none", 0), SignalList(<< >>), SignalList(<< >>)),
      RawText("json", "object", {}, FALSE, FALSE, "", "", Value("none", 0),
              Value("none", 0), SignalList(<< >>), SignalList(<< >>)) }
    \cup { RawText("frontmatter", "mapping", RequiredFields \ {missing}, FALSE, FALSE, "2330", "buy", IntValue(5), IntValue(118000), SignalList(<<"ma_cross">>), SignalList(<< >>)) :
              missing \in RequiredFields }

\* The field values of a single-stock analysis
DocumentFields ==
    [stock_code : {"2330", "  "},
     suggestion : {"BUY", " Sell ", "hold"},
     score : {IntValue(3), Value("numeric_text", -2), Value("text", 0), Value("none", 0)},
     price : {IntValue(118000), Value("none", 0)},
     bullish_signals : {<< >>, <<"ma_cross">>, <<"ma_cross", "  ", " kd_cross">>},
     bearish_signals : {<< >>, <<"rsi_high", "macd_dead">>}]

\* ", ".join-like text of a list: the items with a comma between neighbours
RECURSIVE CommaSeparated(_)
CommaSeparated(items) ==
    IF items = << >> THEN << >>
    ELSE IF Len(items) = 1 THEN items
    ELSE <<Head(items), ",">> \o CommaSeparated(Tail(items))

SignalsWritten(items, style) ==
    IF style = "list" THEN SignalList(items) ELSE SignalText(CommaSeparated(items))

\* The fields as Markdown front matter (price under price_close)
MarkdownDocument(fields, style) ==
    RawText("frontmatter", "mapping", AllKeys \cup {"price_close"}, FALSE, FALSE, fields.stock_code, fields.suggestion, fields.score, fields.price, SignalsWritten(fields.bullish_signals, style), SignalsWritten(fields.bearish_signals, style))

\* The fields as a legacy JSON object (price under price.close)
JsonDocument(fields, style) ==
    RawText("json", "object", AllKeys \cup {"price"}, TRUE, FALSE, fields.stock_code, fields.suggestion, fields.score, fields.price, SignalsWritten(fields.bullish_signals, style), SignalsWritten(fields.bearish_signals, style))

\* n signals
Signals(n) == [i \in 1..n |-> "signal"]

\* Results given to check_alert by any caller
AlertResults ==
    { StockResult("2330", price, suggestion, score, Signals(bull), Signals(bear)) :
        price \in {0, 5000, 118000},
        suggestion \in {"buy", "sell", "watch", "hold", "", "BUY"},
        score \in {-2, 0, 3},
        bull \in 0..MaxSignals,
        bear \in 0..MaxSignals }

ThresholdValues ==
    { NoThresholds, Thresholds(TRUE, 2, TRUE, 2), Thresholds(TRUE, 1, FALSE, 0) }

\* trading_preferences.monitor_sell_ratio as configured, in hundredths: a
\* fraction (0.3, 0.99, 1), a percentage (30, 150), zero, a negative number,
\* a text that is no number, or absent (monitor_job.py:249)
MonitorSellRatios ==
    { IntValue(30), IntValue(99), IntValue(100), IntValue(3000), IntValue(15000),
      IntValue(0), IntValue(-50), Value("text", 0), Value("none", 0) }

SizingValues ==
    { Sizing(capital, buy_ratio, 30, holding_quantity) :
        capital \in {-1000, 0, 1000, 200000},
        buy_ratio \in {0, 20, 100},
        holding_quantity \in {0, 2, 1000} }
    \cup { Sizing(200000, 20, _normalize_ratio(monitor_sell_ratio, 30), holding_quantity) :
              monitor_sell_ratio \in MonitorSellRatios,
              holding_quantity \in {0, 1, 2, 7, 100, 1000} }

-----------------------------------------------------------------------------
(* Parsing and alert specification *)

AlertInit ==
    /\ alert_pc = "init"
    /\ raw_text = RawText("empty", "", {}, FALSE, FALSE, "", "", Value("none", 0),
                          Value("none", 0), SignalList(<< >>), SignalList(<< >>))
    /\ parse_outcome = ReturnedNone
    /\ parsed_result = ReturnedNone
    /\ threshold_config = NoThresholds
    /\ alert = NoAlert
    /\ sizing = NoSizing
    /\ enriched_alert = NotEnriched
    /\ twin_text = RawText("empty", "", {}, FALSE, FALSE, "", "", Value("none", 0),
                           Value("none", 0), SignalList(<< >>), SignalList(<< >>))
    /\ twin_outcome = ReturnedNone

\* parse_single_stock_result(raw_text)
ParseSingleStockResult ==
    /\ alert_pc = "init"
    /\ \E raw \in RawTexts :
          /\ raw_text' = raw
          /\ parse_outcome' = parse_single_stock_result(raw)
    /\ alert_pc' = "parsed"
    /\ UNCHANGED <<parsed_result, threshold_config, alert, sizing, enriched_alert,
                   twin_text, twin_outcome>>
    /\ UNCHANGED <<riskVars, jobVars, planVars, pidVars, skillVars>>

\* check_alert on what the parser returned
CheckParsedResult ==
    /\ alert_pc = "parsed"
    /\ parse_outcome.kind # "raised"
    /\ \E thresholds \in ThresholdValues :
          /\ threshold_config' = thresholds
          /\ alert' = check_alert(parse_outcome, thresholds)
    /\ parsed_result' = parse_outcome
    /\ alert_pc' = "checked"
    /\ UNCHANGED <<raw_text, parse_outcome, sizing, enriched_alert,
                   twin_text, twin_outcome>>
    /\ UNCHANGED <<riskVars, jobVars, planVars, pidVars, skillVars>>

\* monitor_job.py:283-284: check_alert(result, threshold) on a result of the
\* batch analysis
CheckAlert ==
    /\ alert_pc = "init"
    /\ \E result \in AlertResults, thresholds \in ThresholdValues :
          /\ parsed_result' = Returned(result)
          /\ threshold_config' = thresholds
          /\ alert' = check_alert(Returned(result), thresholds)
    /\ alert_pc' = "checked"
    /\ UNCHANGED <<raw_text, parse_outcome, sizing, enriched_alert,
                   twin_text, twin_outcome>>
    /\ UNCHANGED <<riskVars, jobVars, planVars, pidVars, skillVars>>

\* monitor_job.py:285-293: _attach_quantity_to_alert on a triggered alert
AttachQuantity ==
    /\ alert_pc = "checked"
    /\ alert # NoAlert
    /\ \E given \in SizingValues :
          /\ sizing' = given
          /\ enriched_alert' = _attach_quantity_to_alert(alert, given.capital,
                                  given.buy_ratio, given.sell_ratio, given.holding_quantity)
    /\ alert_pc' = "sized"
    /\ UNCHANGED <<raw_text, parse_outcome, parsed_result, threshold_config, alert,
                   twin_text, twin_outcome>>
    /\ UNCHANGED <<riskVars, jobVars, planVars, pidVars, skillVars>>

\* test_report_parser.py:13-61: the same field values written as Markdown
\* front matter and as legacy JSON, each with its signal lists as lists or as
\* comma-separated texts, both given to parse_single_stock_result
ParseEquivalentDocuments ==
    /\ alert_pc = "init"
    /\ \E fields \in DocumentFields, in_markdown, in_json \in {"list", "str"} :
          LET markdown == MarkdownDocument(fields, in_markdown)
              json == JsonDocument(fields, in_json)
          IN  /\ raw_text' = markdown
              /\ parse_outcome' = parse_single_stock_result(markdown)
              /\ twin_text' = json
              /\ twin_outcome' = parse_single_stock_result(json)
    /\ alert_pc' = "compared"
    /\ UNCHANGED <<parsed_result, threshold_config, alert, sizing, enriched_alert>>
    /\ UNCHANGED <<riskVars, jobVars, planVars, pidVars, skillVars>>

\* monitor_job.py:244-305 after the risk rules: check_alert on every parsed
\* result, the quantity attached to every alert. prefs.get on line 246 has
\* ended the run before this point when trading_preferences is no dict; the
\* ratios are the defaults and no position is held.
CollectAlerts ==
    /\ phase = "adjusted"
    /\ origin = "intraday_monitor"
    /\ preferences.is_dict
    /\ \E thresholds \in ThresholdValues :
          monitor_alerts' = AlertLoop(results_given, adjusted, thresholds,
                                      PrefCapital(preferences))
    /\ phase' = "alerted"
    /\ UNCHANGED <<origin, candidates, preferences, cloned_sorted, after_checks,
                   adjusted, memory, results_given>>
    /\ UNCHANGED <<jobVars, alertVars, planVars, pidVars, skillVars>>

RankingNext == GiveCloseCandidates \/ BuildIntraday \/ ApplyRiskRules

MonitorNext == BuildIntraday \/ ApplyRiskRules \/ CollectAlerts

AlertNext ==
    \/ ParseSingleStockResult
    \/ CheckParsedResult
    \/ CheckAlert
    \/ AttachQuantity
    \/ ParseEquivalentDocuments

-----------------------------------------------------------------------------
(* Trading-plan extraction specification *)

PlanInit ==
    /\ plan_pc = "writing"
    /\ plan_exists = TRUE
    /\ plan_content = << >>
    /\ plan_parsed = EmptyPlan
    /\ plan_extracted = << >>

\* The plan generator writes one more line of the plan
WritePlanLine ==
    /\ plan_pc = "writing"
    /\ Len(plan_content) < MaxPlanLines
    /\ \E line \in PlanLines : plan_content' = Append(plan_content, line)
    /\ UNCHANGED <<plan_pc, plan_exists, plan_parsed, plan_extracted>>
    /\ UNCHANGED <<riskVars, jobVars, alertVars, pidVars, skillVars>>

\* parse_trading_plan(filepath) on the plan as it stands
ParseTradingPlan ==
    /\ plan_pc = "writing"
    /\ plan_parsed' = parse_trading_plan(plan_content)
    /\ plan_extracted' = PlanLoop(plan_content, 1, PlanLocals).extracted
    /\ plan_pc' = "parsed"
    /\ UNCHANGED <<plan_exists, plan_content>>
    /\ UNCHANGED <<riskVars, jobVars, alertVars, pidVars, skillVars>>

\* parse_trading_plan(filepath) when no plan was written (report_parser.py:36-38)
ParseMissingPlan ==
    /\ plan_pc = "writing"
    /\ plan_content = << >>
    /\ plan_exists' = FALSE
    /\ plan_parsed' = EmptyPlan
    /\ plan_pc' = "parsed"
    /\ UNCHANGED <<plan_content, plan_extracted>>
    /\ UNCHANGED <<riskVars, jobVars, alertVars, pidVars, skillVars>>

PlanNext == WritePlanLine \/ ParseTradingPlan \/ ParseMissingPlan

-----------------------------------------------------------------------------
(* app/pid_guard.py and main.py : the PID guard of the scheduler *)

\* The scheduler processes that start; os.getpid() of process p is p
Starters == {1, 2}

\* The content of the PID file: "empty" (nothing but blanks), "pid" (a number
\* that can be a process id), "text" (no number), "huge" (a number too large
\* for a process id)
Content(kind, pid) == [kind |-> kind, pid |-> pid]

\* The file at the path of scheduler.pid: whether it exists, which file it is
\* (files created at the path are numbered) and its content
PidFile(inode, content) == [exists |-> TRUE, inode |-> inode, content |-> content]

NoPidFile == [exists |-> FALSE, inode |-> 0, content |-> Content("empty", 0)]

Process(at, old_pid, inode, error) ==
    [pc |-> at, old_pid |-> old_pid, inode |-> inode, error |-> error]

\* What atexit holds for a process (main.py:562) and what the exit of the
\* interpreter did with it
ExitHooks(registered, ran, removed) ==
    [registered |-> registered, ran |-> ran, removed |-> removed]

\* A process is alive from its start to its end
Alive(p) == proc[p].pc \notin {"idle", "exited", "crashed", "stopped"}

\* os.kill(int(old_pid), 0) at pid_guard.py:22: "ok", or the exception raised
os_kill(old_pid) ==
    CASE old_pid.kind = "text" -> "ValueError"
      [] old_pid.kind = "huge" -> "OverflowError"
      [] old_pid.pid = OLD_PID ->
            (CASE old_process = "live" -> "ok"
               [] old_process = "foreign" -> "PermissionError"
               [] OTHER -> "ProcessLookupError")
      [] old_pid.pid \in Starters ->
            IF Alive(old_pid.pid) THEN "ok" ELSE "ProcessLookupError"
      [] OTHER -> "ProcessLookupError"

\* What check_pid does after os.kill when only ProcessLookupError is caught
AfterKill_LookupErrorOnly(outcome) ==
    CASE outcome = "ok" -> "exited"
      [] outcome = "ProcessLookupError" -> "remove"
      [] OTHER -> "crashed"

\* What check_pid does after os.kill (pid_guard.py:21-26): sys.exit(1), the
\* except clause that removes the file, or an exception the clause does not
\* name
AfterKill(outcome) ==
    CASE outcome = "ok" -> "exited"
      [] outcome \in {"ProcessLookupError", "ValueError"} -> "remove"
      [] OTHER -> "crashed"

\* What a previous run can have left at the path
LeftFiles ==
    { NoPidFile } \cup
    { PidFile(1, content) :
        content \in { Content("empty", 0), Content("pid", OLD_PID),
                      Content("text", 0), Content("huge", 0) } }

PidInit ==
    /\ guard_pc = "init"
    /\ left_file = NoPidFile
    /\ old_process = "dead"
    /\ pid_file = NoPidFile
    /\ inodes = 0
    /\ proc = [p \in Starters |-> Process("idle", Content("empty", 0), 0, "")]
    /\ atexit_hooks = [p \in Starters |-> ExitHooks(FALSE, FALSE, FALSE)]

\* The traces of a previous run: a PID file or none, and whether the process
\* it names still lives
PreviousRun ==
    /\ guard_pc = "init"
    /\ \E file \in LeftFiles, state \in {"dead", "live", "foreign"} :
          /\ left_file' = file
          /\ pid_file' = file
          /\ old_process' = state
          /\ inodes' = IF file.exists THEN 1 ELSE 0
    /\ guard_pc' = "ready"
    /\ UNCHANGED <<proc, atexit_hooks>>
    /\ UNCHANGED <<riskVars, jobVars, alertVars, planVars, skillVars>>

\* The removal hook registered before the guard
StartProcess_HookFirst(p) ==
    /\ guard_pc = "ready"
    /\ proc[p].pc = "idle"
    /\ proc' = [proc EXCEPT ![p].pc = "check_exists"]
    /\ atexit_hooks' = [atexit_hooks EXCEPT ![p].registered = TRUE]
    /\ UNCHANGED <<guard_pc, left_file, old_process, pid_file, inodes>>
    /\ UNCHANGED <<riskVars, jobVars, alertVars, planVars, skillVars>>

\* main.py:560: main() reaches check_pid()
StartProcess(p) ==
    /\ guard_pc = "ready"
    /\ proc[p].pc = "idle"
    /\ proc' = [proc EXCEPT ![p].pc = "check_exists"]
    /\ UNCHANGED <<guard_pc, left_file, old_process, pid_file, inodes, atexit_hooks>>
    /\ UNCHANGED <<riskVars, jobVars, alertVars, planVars, skillVars>>

\* pid_guard.py:16: os.path.exists(pid_file)
CheckExists(p) ==
    /\ proc[p].pc = "check_exists"
    /\ proc' = [proc EXCEPT ![p].pc = IF pid_file.exists THEN "read" ELSE "open"]
    /\ UNCHANGED <<guard_pc, left_file, old_process, pid_file, inodes, atexit_hooks>>
    /\ UNCHANGED <<riskVars, jobVars, alertVars, planVars, skillVars>>

\* pid_guard.py:17-20: open and read the file; FileNotFoundError when it was
\* removed since the check, on to write_pid when it holds nothing
ReadPid(p) ==
    /\ proc[p].pc = "read"
    /\ proc' = [proc EXCEPT ![p] =
                  IF ~pid_file.exists
                  THEN Process("crashed", @.old_pid, @.inode, "FileNotFoundError")
                  ELSE IF pid_file.content.kind = "empty"
                  THEN Process("open", pid_file.content, @.inode, "")
                  ELSE Process("kill", pid_file.content, @.inode, "")]
    /\ UNCHANGED <<guard_pc, left_file, old_process, pid_file, inodes, atexit_hooks>>
    /\ UNCHANGED <<riskVars, jobVars, alertVars, planVars, skillVars>>

\* pid_guard.py:21-25: os.kill(int(old_pid), 0) and what follows it
KillCheck(p) ==
    /\ proc[p].pc = "kill"
    /\ LET outcome == os_kill(proc[p].old_pid)
           next == AfterKill(outcome)
       IN  proc' = [proc EXCEPT ![p].pc = next,
                                ![p].error = IF next = "crashed" THEN outcome ELSE ""]
    /\ UNCHANGED <<guard_pc, left_file, old_process, pid_file, inodes, atexit_hooks>>
    /\ UNCHANGED <<riskVars, jobVars, alertVars, planVars, skillVars>>

\* pid_guard.py:26: os.remove(pid_file); FileNotFoundError when the file is
\* gone already
RemoveStale(p) ==
    /\ proc[p].pc = "remove"
    /\ IF pid_file.exists
       THEN /\ pid_file' = NoPidFile
            /\ proc' = [proc EXCEPT ![p].pc = "open"]
       ELSE /\ proc' = [proc EXCEPT ![p].pc = "crashed", ![p].error = "FileNotFoundError"]
            /\ UNCHANGED pid_file
    /\ UNCHANGED <<guard_pc, left_file, old_process, inodes, atexit_hooks>>
    /\ UNCHANGED <<riskVars, jobVars, alertVars, planVars, skillVars>>

\* pid_guard.py:31: open(pid_file, "w") empties the file, or creates it
OpenForWrite(p) ==
    /\ proc[p].pc = "open"
    /\ IF pid_file.exists
       THEN /\ pid_file' = PidFile(pid_file.inode, Content("empty", 0))
            /\ proc' = [proc EXCEPT ![p].pc = "write", ![p].inode = pid_file.inode]
            /\ UNCHANGED inodes
       ELSE /\ pid_file' = PidFile(inodes + 1, Content("empty", 0))
            /\ proc' = [proc EXCEPT ![p].pc = "write", ![p].inode = inodes + 1]
            /\ inodes' = inodes + 1
    /\ UNCHANGED <<guard_pc, left_file, old_process, atexit_hooks>>
    /\ UNCHANGED <<riskVars, jobVars, alertVars, planVars, skillVars>>

\* pid_guard.py:32: write str(os.getpid()) to the opened file, which is lost
\* when the file was removed from the path meanwhile
WritePid(p) ==
    /\ proc[p].pc = "write"
    /\ pid_file' = IF pid_file.exists /\ pid_file.inode = proc[p].inode
                   THEN PidFile(pid_file.inode, Content("pid", p))
                   ELSE pid_file
    /\ proc' = [proc EXCEPT ![p].pc = "guarded"]
    /\ UNCHANGED <<guard_pc, left_file, old_process, inodes, atexit_hooks>>
    /\ UNCHANGED <<riskVars, jobVars, alertVars, planVars, skillVars>>

\* main.py:562-570: atexit.register(remove_pid), setup_scheduler, scheduler.start()
StartScheduler(p) ==
    /\ proc[p].pc = "guarded"
    /\ proc' = [proc EXCEPT ![p].pc = "running"]
    /\ atexit_hooks' = [atexit_hooks EXCEPT ![p].registered = TRUE]
    /\ UNCHANGED <<guard_pc, left_file, old_process, pid_file, inodes>>
    /\ UNCHANGED <<riskVars, jobVars, alertVars, planVars, skillVars>>

\* main.py:578-581: a signal stops the scheduler; remove_pid() starts with
\* os.path.exists (pid_guard.py:37)
Shutdown(p) ==
    /\ proc[p].pc = "running"
    /\ proc' = [proc EXCEPT ![p].pc = IF pid_file.exists THEN "unlink" ELSE "stopped"]
    /\ UNCHANGED <<guard_pc, left_file, old_process, pid_file, inodes, atexit_hooks>>
    /\ UNCHANGED <<riskVars, jobVars, alertVars, planVars, skillVars>>

\* pid_guard.py:38: os.remove(pid_file) of remove_pid
RemovePid(p) ==
    /\ proc[p].pc = "unlink"
    /\ IF pid_file.exists
       THEN /\ pid_file' = NoPidFile
            /\ proc' = [proc EXCEPT ![p].pc = "stopped"]
       ELSE /\ proc' = [proc EXCEPT ![p].pc = "crashed", ![p].error = "FileNotFoundError"]
            /\ UNCHANGED pid_file
    /\ UNCHANGED <<guard_pc, left_file, old_process, inodes, atexit_hooks>>
    /\ UNCHANGED <<riskVars, jobVars, alertVars, planVars, skillVars>>

\* The interpreter exits (sys.exit(1) of pid_guard.py:24, an exception nothing
\* catches, or the return of main() after main.py:593-594) and atexit runs
\* what main.py:562 registered: remove_pid (pid_guard.py:35-38)
RunExitHooks(p) ==
    /\ proc[p].pc \in {"exited", "crashed", "stopped"}
    /\ ~atexit_hooks[p].ran
    /\ IF atexit_hooks[p].registered /\ pid_file.exists
       THEN /\ pid_file' = NoPidFile
            /\ atexit_hooks' = [atexit_hooks EXCEPT ![p].ran = TRUE, ![p].removed = TRUE]
       ELSE /\ UNCHANGED pid_file
            /\ atexit_hooks' = [atexit_hooks EXCEPT ![p].ran = TRUE]
    /\ UNCHANGED <<guard_pc, left_file, old_process, inodes, proc>>
    /\ UNCHANGED <<riskVars, jobVars, alertVars, planVars, skillVars>>

PidNext ==
    \/ PreviousRun
    \/ \E p \in Starters :
          \/ StartProcess(p)
          \/ CheckExists(p)
          \/ ReadPid(p)
          \/ KillCheck(p)
          \/ RemoveStale(p)
          \/ OpenForWrite(p)
          \/ WritePid(p)
          \/ StartScheduler(p)
          \/ Shutdown(p)
          \/ RemovePid(p)
          \/ RunExitHooks(p)

-----------------------------------------------------------------------------
(* ai_runner.py : where the required skill is found, and the synchronization *)
(* of the skills to the provider home                                       *)

\* The skills of the model; the news task requires the first one
\* (task_skill_map, ai_runner.py:53-58)
SkillNames == <<"news-stock-picker", "tw-stock-analyzer">>

RequiredSkill == "news-stock-picker"

\* The absolute paths of the model: a skill directory of the repository and
\* the two default provider homes (ai_runner.py:49-64)
SkillPaths == {"/repo/.claude/skills", "/root/.claude/skills", "/root/.codex/skills"}

\* preferred_root in root_path (ai_runner.py:122, 137): the path contains
\* ".<provider>/skills"
HoldsProviderSkills(root_path, provider) ==
    \/ provider = "claude" /\ root_path \in {"/repo/.claude/skills", "/root/.claude/skills"}
    \/ provider = "codex" /\ root_path = "/root/.codex/skills"

\* ai.provider and ai.skill_enforcement: mode, repo_skill_roots and the
\* provider's entry of provider_home_map ("" when it is blank)
SkillConfig(provider, mode, roots, home) ==
    [provider |-> provider, mode |-> mode, repo_skill_roots |-> roots,
     provider_home |-> home]

\* _iter_repo_skill_roots in the order of the configuration
_iter_repo_skill_roots_ConfigOrder(cfg) == cfg.repo_skill_roots

\* _iter_repo_skill_roots(skill_cfg, provider), ai_runner.py:117-142
_iter_repo_skill_roots(cfg) ==
    LET preferred == SelectSeq(cfg.repo_skill_roots,
                               LAMBDA root_path : HoldsProviderSkills(root_path, cfg.provider))
        others == SelectSeq(cfg.repo_skill_roots,
                            LAMBDA root_path : ~HoldsProviderSkills(root_path, cfg.provider))
    IN  preferred \o others

\* _iter_skill_source_roots(skill_cfg, provider), ai_runner.py:165-182: the
\* roots without repetition, then the provider home unless it is among them
_iter_skill_source_roots(cfg) ==
    LET source_roots == Unique(<< >>, _iter_repo_skill_roots(cfg))
    IN  IF cfg.provider_home = ""
        THEN [source_roots |-> source_roots, error |-> TRUE]
        ELSE [source_roots |-> IF InList(source_roots, cfg.provider_home) THEN source_roots
                               ELSE Append(source_roots, cfg.provider_home),
              error |-> FALSE]

\* A tree of skill directories: for each directory and skill name "none" (no
\* such entry), "no_manifest" (a directory without SKILL.md) or, for a skill
\* directory, the directory where its files were written first
SkillTrees ==
    { tree \in [SkillPaths -> [{SkillNames[1], SkillNames[2]} ->
                                   {"none", "no_manifest"} \cup SkillPaths]] :
        \A dir \in SkillPaths :
            /\ tree[dir][SkillNames[1]] \in {"none", "no_manifest", dir}
            /\ tree[dir][SkillNames[2]] \in {"none", dir} }

\* The directory a path leads to: the provider home may be a link to another
\* directory
DirectoryAt(path, cfg, real) == IF path = cfg.provider_home THEN real ELSE path

\* os.path.isdir(skill_dir) and os.path.isfile(skill_file)
IsSkill(tree, path, name, cfg, real) ==
    tree[DirectoryAt(path, cfg, real)][name] \notin {"none", "no_manifest"}

NoSkillDir == [root |-> "", name |-> ""]

\* _find_skill_path(skill_name, source_roots), ai_runner.py:185-192
RECURSIVE _find_skill_path(_, _, _, _, _)
_find_skill_path(skill_name, source_roots, tree, cfg, real) ==
    IF source_roots = << >> THEN NoSkillDir
    ELSE IF IsSkill(tree, Head(source_roots), skill_name, cfg, real)
    THEN [root |-> Head(source_roots), name |-> skill_name]
    ELSE _find_skill_path(skill_name, Tail(source_roots), tree, cfg, real)

\* _collect_repo_skill_map(skill_cfg, provider), ai_runner.py:195-216: for
\* each name the first source root that holds it as a skill, in the order in
\* which the names are met (listing is the order of os.listdir)
RECURSIVE CollectFrom(_, _, _, _, _, _)
CollectFrom(source_roots, listing, skill_map, tree, cfg, real) ==
    IF source_roots = << >> THEN skill_map
    ELSE LET root_path == Head(source_roots)
             found == SelectSeq(listing,
                         LAMBDA entry :
                            /\ ~ \E i \in 1..Len(skill_map) : skill_map[i].name = entry
                            /\ IsSkill(tree, root_path, entry, cfg, real))
             added == [i \in 1..Len(found) |-> [root |-> root_path, name |-> found[i]]]
         IN  CollectFrom(Tail(source_roots), listing, skill_map \o added, tree, cfg, real)

_collect_repo_skill_map(cfg, listing, tree, real) ==
    CollectFrom(_iter_skill_source_roots(cfg).source_roots, listing, << >>, tree, cfg, real)

\* The loop of _sync_repo_skills_to_provider_home (ai_runner.py:265-281) over
\* the collected skills: unless source and target are the same path, the
\* target directory is removed and the source copied to it; copytree raises
\* when the source is not there
RECURSIVE SyncLoop(_, _, _, _, _)
SyncLoop(skill_map, synced, tree, cfg, real) ==
    IF skill_map = << >> THEN [tree |-> tree, synced |-> synced, error |-> FALSE]
    ELSE LET source == Head(skill_map)
             source_at == DirectoryAt(source.root, cfg, real)
             target_at == DirectoryAt(cfg.provider_home, cfg, real)
             removed == [tree EXCEPT ![target_at][source.name] = "none"]
         IN  IF source.root = cfg.provider_home
             THEN SyncLoop(Tail(skill_map), synced \cup {source.name}, tree, cfg, real)
             ELSE IF removed[source_at][source.name] = "none"
             THEN [tree |-> removed, synced |-> {}, error |-> TRUE]
             ELSE SyncLoop(Tail(skill_map), synced \cup {source.name},
                           [removed EXCEPT ![target_at][source.name] =
                                               removed[source_at][source.name]],
                           cfg, real)

\* A part of a prompt: a piece of text or the path of a skill directory
PromptText(text) == [text |-> text, dir |-> NoSkillDir]

PromptPath(dir) == [text |-> "", dir |-> dir]

\* _build_skill_enforced_prompt(task_name, base_prompt, skill_name,
\* repo_skill_dir, provider_skill_dir), ai_runner.py:286-299: the parts of the
\* text in their order
_build_skill_enforced_prompt(task_name, base_prompt, skill_name, repo_skill_dir, provider_skill_dir) ==
    <<PromptText("skill_rules"), PromptText(task_name), PromptText(skill_name),
      PromptPath(repo_skill_dir), PromptPath(provider_skill_dir),
      PromptText("read_skill_md"), PromptText("stop_if_not_loadable"),
      PromptText("original_task"), PromptText(base_prompt)>>

\* os.path.join(root, name) as the model writes a skill directory
SkillDir(root, name) == [root |-> root, name |-> name]

\* The synchronization reporting every collected skill as synced without
\* copying anything
_sync_repo_skills_to_provider_home_NoCopy(cfg, listing, tree, real) ==
    LET repo_skill_map == _collect_repo_skill_map(cfg, listing, tree, real)
    IN  IF cfg.provider_home = "" \/ repo_skill_map = << >>
        THEN [tree |-> tree, synced |-> {}, error |-> TRUE]
        ELSE [tree |-> tree,
              synced |-> {repo_skill_map[i].name : i \in 1..Len(repo_skill_map)},
              error |-> FALSE]

\* _sync_repo_skills_to_provider_home(provider, skill_cfg), ai_runner.py:250-283
_sync_repo_skills_to_provider_home(cfg, listing, tree, real) ==
    LET repo_skill_map == _collect_repo_skill_map(cfg, listing, tree, real)
    IN  IF cfg.provider_home = "" \/ repo_skill_map = << >>
        THEN [tree |-> tree, synced |-> {}, error |-> TRUE]
        ELSE SyncLoop(repo_skill_map, {}, tree, cfg, real)

\* The skill preflight of _prepare_task_prompt (ai_runner.py:308-353) for the
\* news task: _validate_required_skill, then the synchronization, then the
\* prompt
SkillPreflight(cfg, listing, tree, real) ==
    LET roots == _iter_skill_source_roots(cfg)
        repo_skill_dir == IF roots.error THEN NoSkillDir
                          ELSE _find_skill_path(RequiredSkill, roots.source_roots,
                                                tree, cfg, real)
        sync == _sync_repo_skills_to_provider_home(cfg, listing, tree, real)
        skill == IF repo_skill_dir = NoSkillDir THEN "missing"
                 ELSE IF sync.error \/ RequiredSkill \notin sync.synced THEN "sync_failed"
                 ELSE "synced"
        prepared == _prepare_task_prompt(cfg.mode, skill)
    IN  [skill |-> skill,
         prepared |-> prepared,
         prompt |-> IF ~prepared.can_run THEN << >>
                    ELSE IF prepared.prompt = "enforced"
                    THEN _build_skill_enforced_prompt(
                             "news", "base_prompt", RequiredSkill, repo_skill_dir,
                             SkillDir(cfg.provider_home, RequiredSkill))
                    ELSE <<PromptText("base_prompt")>>,
         repo_skill_dir |-> repo_skill_dir,
         repo_skill_map |-> IF repo_skill_dir = NoSkillDir THEN << >>
                            ELSE _collect_repo_skill_map(cfg, listing, tree, real),
         synced |-> IF repo_skill_dir = NoSkillDir THEN {} ELSE sync.synced,
         tree |-> IF repo_skill_dir = NoSkillDir THEN tree ELSE sync.tree]

NoPreflight ==
    [skill |-> "unchecked", prepared |-> [can_run |-> FALSE, prompt |-> "", error |-> ""],
     prompt |-> << >>, repo_skill_dir |-> NoSkillDir, repo_skill_map |-> << >>, synced |-> {},
     tree |-> [dir \in SkillPaths |-> [name \in {SkillNames[1], SkillNames[2]} |-> "none"]]]

\* The configurations of the model
SkillConfigs ==
    { SkillConfig(provider, mode, roots, home) :
        provider \in {"claude", "codex"},
        mode \in {"strict", "warn"},
        roots \in SeqsUpTo(SkillPaths, MaxSkillRoots),
        home \in {"", "/root/.claude/skills", "/root/.codex/skills"} }

SkillInit ==
    /\ skill_pc = "init"
    /\ skill_cfg = SkillConfig("claude", "strict", << >>, "")
    /\ home_real = ""
    /\ skills_before = NoPreflight.tree
    /\ skills = NoPreflight.tree
    /\ preflight = NoPreflight

\* The installation: config.yaml, the skill directories on disk, and where
\* the provider home path leads (itself, or the repository's skill directory
\* when it is a link to it)
InstallSkills ==
    /\ skill_pc = "init"
    /\ \E cfg \in SkillConfigs, tree \in SkillTrees,
          real \in {"/repo/.claude/skills", "/root/.claude/skills", "/root/.codex/skills"} :
          /\ cfg.provider_home = "" => real = "/root/.claude/skills"
          /\ cfg.provider_home # "" => real \in {cfg.provider_home, "/repo/.claude/skills"}
          /\ (cfg.provider_home # "" /\ real # cfg.provider_home)
                => \A name \in {SkillNames[1], SkillNames[2]} :
                      tree[cfg.provider_home][name] = "none"
          /\ skill_cfg' = cfg
          /\ home_real' = real
          /\ skills_before' = tree
          /\ skills' = tree
    /\ skill_pc' = "configured"
    /\ UNCHANGED preflight
    /\ UNCHANGED <<riskVars, jobVars, alertVars, planVars, pidVars>>

\* _prepare_task_prompt("news", base_prompt, ai_cfg) with skill enforcement
\* enabled
PrepareTaskPrompt ==
    /\ skill_pc = "configured"
    /\ \E listing \in {SkillNames, <<SkillNames[2], SkillNames[1]>>} :
          LET done == SkillPreflight(skill_cfg, listing, skills, home_real)
          IN  /\ preflight' = done
              /\ skills' = done.tree
    /\ skill_pc' = "prepared"
    /\ UNCHANGED <<skill_cfg, home_real, skills_before>>
    /\ UNCHANGED <<riskVars, jobVars, alertVars, planVars, pidVars>>

\* run_news_stock_picker after the preflight (ai_runner.py:506-512): when
\* can_run, run_ai_task is called with the prepared prompt
InvokeWithPreparedPrompt ==
    /\ skill_pc = "prepared"
    /\ preflight.prepared.can_run
    /\ skill_pc' = "invoked"
    /\ UNCHANGED <<skill_cfg, home_real, skills_before, skills, preflight>>
    /\ UNCHANGED <<riskVars, jobVars, alertVars, planVars, pidVars>>

SkillNext == InstallSkills \/ PrepareTaskPrompt \/ InvokeWithPreparedPrompt

-----------------------------------------------------------------------------
(* Specifications *)

Init == RiskInit /\ JobInit /\ AlertInit /\ PlanInit /\ PidInit /\ SkillInit

\* Signal Engine and Risk Rules on their inputs
SpecRisk == Init /\ [][RiskNext]_vars

\* One run of one job, from the scheduler's trigger to its end
SpecJob == Init /\ [][JobNext]_vars

\* The ranking of the engine and of the risk rules: intraday results, and
\* candidates of distinct stocks with close scores
SpecRanking == Init /\ [][RankingNext]_vars

\* The monitor run from the parsed results of the batch analysis to its alerts
SpecMonitor == Init /\ [][MonitorNext]_vars

\* Parsing of a single-stock result, the alert check and the suggested quantity
SpecAlert == Init /\ [][AlertNext]_vars

\* Extraction of the stock codes of a trading plan
SpecPlan == Init /\ [][PlanNext]_vars

\* Two scheduler processes starting behind the PID guard
SpecPid == Init /\ [][PidNext]_vars

\* The skill preflight of a task on an installation
SpecSkill == Init /\ [][SkillNext]_vars

-----------------------------------------------------------------------------
(* Claims about the Risk Rules and the Signal Engine (checked under SpecRisk) *)

\* The preferences of the call as the claims read them
GivenCapital ==
    IF preferences.is_dict /\ preferences.has_capital THEN preferences.capital ELSE 0

GivenMaxBuySignals ==
    IF preferences.is_dict /\ preferences.has_max_buy_signals
    THEN (IF preferences.max_buy_signals < 0 THEN 0 ELSE preferences.max_buy_signals)
    ELSE 5

GivenMinBuyConfidence ==
    IF preferences.is_dict /\ preferences.has_min_buy_confidence
    THEN (IF preferences.min_buy_confidence > ConfOne THEN ConfOne
          ELSE IF preferences.min_buy_confidence < 0 THEN 0
          ELSE preferences.min_buy_confidence)
    ELSE 55000

CountAction(items, action) ==
    Cardinality({i \in DOMAIN items : items[i].action = action})

\* C1's scenario: 3 buy candidates, max_buy_signals = 1, positive capital and
\* sufficient confidence
ThreeBuysCapOne ==
    /\ phase = "adjusted"
    /\ Len(candidates) = 3
    /\ \A i \in DOMAIN candidates : candidates[i].action = "buy"
    /\ preferences.is_dict /\ preferences.has_max_buy_signals
    /\ preferences.max_buy_signals = 1
    /\ GivenCapital > 0
    /\ \A i \in DOMAIN cloned_sorted : cloned_sorted[i].confidence >= GivenMinBuyConfidence

\* C1: the list returned by apply_risk_rules holds at most max_buy_signals
\* (default 5, floored at 0) candidates with action buy, for every candidate
\* list and every preferences map; 3 buy candidates with max_buy_signals = 1,
\* positive capital and sufficient confidence give exactly 1 buy and 2 watch.
C1_BuyCountWithinLimit ==
    phase = "adjusted" =>
        /\ CountAction(adjusted, "buy") <= GivenMaxBuySignals
        /\ ThreeBuysCapOne =>
              /\ CountAction(adjusted, "buy") = 1
              /\ CountAction(adjusted, "watch") = 2

C1_Witness ==
    /\ ThreeBuysCapOne
    /\ CountAction(adjusted, "buy") = 1
    /\ CountAction(adjusted, "watch") = 2

InRange(c) ==
    /\ 0 <= c.total_score /\ c.total_score <= 100 * Pt
    /\ 0 <= c.confidence /\ c.confidence <= ConfOne
    /\ c.action \in {"buy", "watch", "reduce", "avoid"}

\* C9: every CandidateSignal produced by either Signal Engine entry point,
\* and every one apply_risk_rules returns for such output under any
\* preferences, has total_score in [0,100], confidence in [0,1] and action in
\* {buy, watch, reduce, avoid}.
C9_EngineAndRiskOutputInRange ==
    origin \in {"daily_plan", "intraday_monitor"} =>
        /\ \A i \in DOMAIN candidates : InRange(candidates[i])
        /\ \A i \in DOMAIN adjusted : InRange(adjusted[i])

\* an engine candidate whose score was below the penalty, downgraded to the floor
C9_Witness ==
    /\ phase = "adjusted"
    /\ origin = "intraday_monitor"
    /\ \E i \in DOMAIN after_checks :
          /\ cloned_sorted[i].action = "buy"
          /\ after_checks[i].action = "watch"
          /\ cloned_sorted[i].total_score < 4 * Pt
          /\ after_checks[i].total_score = 0
    /\ \E i \in DOMAIN adjusted : adjusted[i].total_score = 100 * Pt

FailsCapitalAndConfidence(i) ==
    /\ cloned_sorted[i].action = "buy"
    /\ GivenCapital <= 0
    /\ cloned_sorted[i].confidence < GivenMinBuyConfidence

\* C10 as stated: the checks are independent, so a buy candidate with
\* capital <= 0 and confidence < min_buy_confidence gets risk_penalty +15 and
\* two appended reasons in the same pass.
C10_PenaltiesAccumulate ==
    phase = "adjusted" =>
        \A i \in DOMAIN cloned_sorted :
            FailsCapitalAndConfidence(i) =>
                /\ after_checks[i].risk_penalty = cloned_sorted[i].risk_penalty + 15 * Pt
                /\ Len(after_checks[i].reasons) = Len(cloned_sorted[i].reasons) + 2

\* C10 as amended: the checks are tried in order and the first one that fails
\* ends the handling of the candidate, so a buy candidate gets exactly one
\* penalty and one appended reason: 10 when capital <= 0 (whatever its
\* confidence), else 5 when confidence < min_buy_confidence, else 4 when it
\* is downgraded for the cap, else none; other candidates are left as cloned.
C10_FirstFailingCheckOnly ==
    phase = "adjusted" =>
        \A i \in DOMAIN cloned_sorted :
            LET before == cloned_sorted[i]
                after == after_checks[i]
                delta == after.risk_penalty - before.risk_penalty
                added == Len(after.reasons) - Len(before.reasons)
            IN  IF before.action # "buy" THEN after = before
                ELSE IF GivenCapital <= 0
                THEN delta = 10 * Pt /\ added = 1 /\ after.action = "watch"
                     /\ after.reasons[Len(after.reasons)].tag = "risk_capital"
                ELSE IF before.confidence < GivenMinBuyConfidence
                THEN delta = 5 * Pt /\ added = 1 /\ after.action = "watch"
                     /\ after.reasons[Len(after.reasons)].tag = "risk_confidence"
                ELSE \/ delta = 4 * Pt /\ added = 1 /\ after.action = "watch"
                        /\ after.reasons[Len(after.reasons)].tag = "risk_max_buy"
                     \/ delta = 0 /\ added = 0 /\ after = before

C10_Witness ==
    /\ phase = "adjusted"
    /\ \E i \in DOMAIN cloned_sorted :
          /\ FailsCapitalAndConfidence(i)
          /\ after_checks[i].risk_penalty = cloned_sorted[i].risk_penalty + 10 * Pt
          /\ Len(after_checks[i].reasons) = Len(cloned_sorted[i].reasons) + 1

\* The caller's candidates as the call left them, read through the caller's list
InputAfterCall == [i \in 1..Len(memory.input) |-> Deref(memory.store, memory.input[i])]

\* The returned candidates, read through the returned list
ReturnedAfterCall ==
    [i \in 1..Len(memory.returned) |-> Deref(memory.store, memory.returned[i])]

SomeDowngrade ==
    \E i \in 1..Len(after_checks) : after_checks[i].action # cloned_sorted[i].action

\* C11: apply_risk_rules never mutates its input: after the call the caller's
\* list holds the same candidates in the same order, each with the same
\* fields, the same reasons list content and the same metadata; the returned
\* candidates are other objects with reasons lists and metadata dicts of their
\* own, and they are the downgraded ones.
C11_InputNotMutated ==
    phase = "adjusted"
        => /\ InputAfterCall = candidates
           /\ \A i \in 1..Len(memory.input) :
                 memory.store.maps[memory.store.objects[memory.input[i]].metadata]
                    = candidates[i].stock_code
           /\ \A i \in 1..Len(memory.input), j \in 1..Len(memory.returned) :
                 LET mine == memory.store.objects[memory.input[i]]
                     theirs == memory.store.objects[memory.returned[j]]
                 IN  /\ memory.input[i] # memory.returned[j]
                     /\ mine.reasons # theirs.reasons
                     /\ mine.metadata # theirs.metadata
           /\ ReturnedAfterCall = adjusted

C11_Witness ==
    /\ phase = "adjusted"
    /\ Len(candidates) >= 2
    /\ SomeDowngrade
    /\ InputAfterCall = candidates
    /\ ReturnedAfterCall # candidates

\* The action of a returned candidate against its input's: unchanged, or buy
\* turned into watch
ActionKeptOrDowngraded(given, returned) ==
    \/ returned.action = given.action
    \/ given.action = "buy" /\ returned.action = "watch"

\* given with its scores at two decimals and its confidence at four
RoundedFields(given) ==
    [given EXCEPT !.technical_score = RoundTo(@, 10),
                  !.news_score = RoundTo(@, 10),
                  !.risk_penalty = RoundTo(@, 10),
                  !.total_score = RoundTo(@, 10),
                  !.confidence = RoundTo(@, 10)]

\* Some one-to-one pairing of the returned list with the input list makes
\* related(input candidate, returned candidate) hold for every pair
PairedOneToOne(related(_, _)) ==
    /\ Len(adjusted) = Len(candidates)
    /\ \E p \in Permutations(1..Len(candidates)) :
          \A i \in 1..Len(candidates) : related(candidates[p[i]], adjusted[i])

C12_AsStated(given, returned) ==
    /\ returned.stock_code = given.stock_code
    /\ ActionKeptOrDowngraded(given, returned)
    /\ given.action # "buy" => returned = given

C12_AsCoded(given, returned) ==
    /\ returned.stock_code = given.stock_code
    /\ ActionKeptOrDowngraded(given, returned)
    /\ given.action # "buy" => returned = RoundedFields(given)

\* C12 as stated: one returned candidate per input candidate, its action
\* unchanged or changed from buy to watch, and every field unchanged when the
\* input action is not buy.
C12_NonBuyFieldsUnchanged ==
    phase = "adjusted" => PairedOneToOne(C12_AsStated)

\* C12 as the code has it: one returned candidate per input candidate, its
\* action unchanged or changed from buy to watch; a candidate whose input
\* action is not buy comes out with the same fields, its four scores rounded
\* to two decimals and its confidence to four (the rounding of to_dict, which
\* the clone goes through).
C12_OnlyDowngradedNonBuyRounded ==
    phase = "adjusted" => PairedOneToOne(C12_AsCoded)

C12_Witness ==
    /\ phase = "adjusted"
    /\ SomeDowngrade
    /\ \E i \in 1..Len(candidates) :
          candidates[i].action = "reduce" /\ RoundedFields(candidates[i]) # candidates[i]
    /\ \E i \in 1..Len(candidates) : candidates[i].action = "watch"

StockCodesDistinct(items) ==
    \A i, j \in 1..Len(items) : i # j => items[i].stock_code # items[j].stock_code

\* C13: within the candidate list of one daily or monitor run, before and
\* after the risk rules, no two candidates share a stock_code.
C13_StockCodesUnique ==
    origin \in {"daily_plan", "intraday_monitor"}
        => StockCodesDistinct(candidates) /\ StockCodesDistinct(adjusted)

\* Some given item with a stock code has a numeric field that is text but no
\* number
SomeUnparsableNumber ==
    \E i \in 1..Len(results_given) :
        /\ StripText(results_given[i].stock_code) # ""
        /\ \E f \in {"score", "bullish_count", "bearish_count", "price"} :
              results_given[i][f].kind = "text"

\* C14: build_intraday_candidates_from_results returns a candidate list for
\* every input and never raises; a result whose number cannot be parsed is
\* scored with 0 in its place and still gets its candidate.
C14_EngineNeverRaises ==
    /\ phase # "raised"
    /\ (origin = "intraday_monitor" /\ phase = "built" /\ SomeUnparsableNumber)
          => \A i \in 1..Len(results_given) :
                StripText(results_given[i].stock_code) # ""
                   => \E j \in 1..Len(candidates) :
                         candidates[j].stock_code = StripText(results_given[i].stock_code)

\* The given results that have a stock code, in the order given
ResultsWithCode ==
    SelectSeq(results_given, LAMBDA r : r.stock_code \notin {"", "  "})

\* The engine returned one candidate per result with a stock code, and some
\* one-to-one pairing makes related(result, candidate) hold for every pair
PairedWithResults(related(_, _)) ==
    /\ Len(candidates) = Len(ResultsWithCode)
    /\ \E p \in Permutations(1..Len(candidates)) :
          \A i \in 1..Len(candidates) : related(ResultsWithCode[p[i]], candidates[i])

IntegerCounts(r) ==
    r.score.kind = "int" /\ r.bullish_count.kind = "int" /\ r.bearish_count.kind = "int"

ExpectedTechnicalScore(score, bull, bear) ==
    LET raw == 50 + 4 * score + 3 * (bull - bear)
    IN  IF raw < 0 THEN 0 ELSE IF raw > 100 THEN 100 ELSE raw

ExpectedRiskPenalty(score, bull, bear) ==
    (IF bear >= bull + 2 THEN 6 ELSE 0) + (IF score < 0 THEN 4 ELSE 0)

C17_Scored(r, c) ==
    /\ c.stock_code = r.stock_code
    /\ IntegerCounts(r) =>
          /\ c.technical_score
                = 1000 * ExpectedTechnicalScore(r.score.value, r.bullish_count.value,
                                                r.bearish_count.value)
          /\ c.risk_penalty
                = 1000 * ExpectedRiskPenalty(r.score.value, r.bullish_count.value,
                                             r.bearish_count.value)
          /\ (r.score.value = 5 /\ r.bullish_count.value = 4 /\ r.bearish_count.value = 1
              /\ r.suggestion = "buy")
                => c.technical_score = 79000 /\ c.risk_penalty = 0 /\ c.action = "buy"

\* C17: for every intraday result with integer score, bullish_count and
\* bearish_count the candidate has technical_score = clamp(50 + 4*score +
\* 3*(bullish_count - bearish_count), 0, 100) and risk_penalty = (6 if
\* bearish_count >= bullish_count + 2 else 0) + (4 if score < 0 else 0);
\* score 5, bullish 4, bearish 1, suggestion buy gives 79, 0 and buy.
C17_IntradayScoreFormula ==
    (origin = "intraday_monitor" /\ phase = "built") => PairedWithResults(C17_Scored)

C17_Witness ==
    /\ origin = "intraday_monitor"
    /\ phase = "built"
    /\ \E i \in 1..Len(candidates) :
          candidates[i].technical_score = 79000 /\ candidates[i].action = "buy"
    /\ \E i \in 1..Len(candidates) : candidates[i].risk_penalty = 10000
    /\ \A i \in 1..Len(results_given) : IntegerCounts(results_given[i])

UsableSuggestions == {"buy", "BUY", "sell", "Sell", " Sell ", "watch", "hold", "Hold"}

ExpectedAction(suggestion, bull, bear) ==
    IF suggestion \in {"buy", "BUY"} THEN "buy"
    ELSE IF suggestion \in {"sell", "Sell", " Sell "} THEN "reduce"
    ELSE IF suggestion \in {"watch", "hold", "Hold"} THEN "watch"
    ELSE IF bear > bull THEN "avoid"
    ELSE "watch"

C18_Mapped(r, c) ==
    /\ c.stock_code = r.stock_code
    /\ c.action = ExpectedAction(r.suggestion, NumberOrZero(r.bullish_count).value,
                                 NumberOrZero(r.bearish_count).value)

\* C18: the intraday candidate's action is decided by the suggestion first
\* (buy -> buy, sell -> reduce, watch or hold -> watch, in any letter case)
\* whatever the signal counts are; only when the suggestion is none of these
\* is it avoid if bearish_count > bullish_count and watch otherwise.
C18_SuggestionDecidesAction ==
    (origin = "intraday_monitor" /\ phase = "built") => PairedWithResults(C18_Mapped)

C18_Witness ==
    /\ origin = "intraday_monitor"
    /\ phase = "built"
    /\ \E i \in 1..Len(results_given) :
          /\ results_given[i].suggestion \in {"buy", "BUY"}
          /\ results_given[i].bearish_count.value > results_given[i].bullish_count.value
          /\ \E j \in 1..Len(candidates) :
                /\ candidates[j].stock_code = results_given[i].stock_code
                /\ candidates[j].action = "buy"
    /\ \E i \in 1..Len(results_given) :
          /\ results_given[i].suggestion \notin UsableSuggestions
          /\ \E j \in 1..Len(candidates) :
                /\ candidates[j].stock_code = results_given[i].stock_code
                /\ candidates[j].action = "avoid"

-----------------------------------------------------------------------------
(* Claims about the AI Runner and the jobs (checked under SpecJob) *)

EventNames == [i \in 1..Len(events) |-> events[i].event]

LastEvent == events[Len(events)].event

TerminalEvents == {"skipped", "failed", "completed"}

\* No file of the task's output pattern was modified at or after
\* started_at - 2 seconds
NoFreshOutput ==
    \A n \in DOMAIN files : files[n] = Absent \/ files[n] < started_at - 2

\* C2: when the provider call of the news or daily task ended with exit code 0
\* but no matching file has a modification time >= call start - 2 seconds,
\* the run_* function returns failure, and the job goes no further than
\* logging failed, sending no email.
C2_NoFreshOutputIsFailure ==
    (job \in {"news", "daily"} /\ ai_result = "success" /\ NoFreshOutput)
        => /\ ~runner_result.success
           /\ pc \in {"verify", "returned", "done"}
           /\ emails = 0
           /\ pc = "done" => LastEvent = "failed"

C2_Witness ==
    /\ job \in {"news", "daily"}
    /\ pc = "done"
    /\ ai_result = "success"
    /\ NoFreshOutput
    /\ \E n \in DOMAIN files : files[n] # Absent
    /\ LastEvent = "failed"
    /\ emails = 0

\* C3 as stated: any of the three jobs run on a non-trading day emits skipped
\* and never calls the runner.
C3_AllJobsSkipOnNonTradingDay ==
    (job \in {"news", "daily", "monitor"} /\ ~trading_day)
        => /\ EventNames = <<"skipped">>
           /\ runner_calls = 0

\* C3 as the code has it: the daily and the monitor job run on a non-trading
\* day emit one skipped event and end without calling the runner or the
\* provider; the news job has no calendar check and emits start first
\* whatever the day.
C3_DailyAndMonitorSkipOnNonTradingDay ==
    /\ (job \in {"daily", "monitor"} /\ ~trading_day)
          => /\ events = <<Event("skipped", "non_trading_day")>>
             /\ pc = "done"
             /\ runner_calls = 0
             /\ invocations = << >>
    /\ job = "news" => events[1] = Event("start", "")

C3_Witness ==
    /\ job \in {"daily", "monitor"}
    /\ ~trading_day
    /\ pc = "done"
    /\ EventNames = <<"skipped">>

\* C4: with skill enforcement enabled in a mode other than warn, a required
\* skill that is missing or a failed skill synchronization makes the task
\* return failure with the preflight error, and the provider command is never
\* invoked.
C4_StrictPreflightFailureBlocksProvider ==
    (config.skill_mode \notin {"off", "warn"} /\ skill_state \in {"missing", "sync_failed"})
        => /\ runner_result = Result(FALSE, skill_state)
           /\ invocations = << >>
           /\ ai_result = "none"
           /\ pc \in {"returned", "done"}
           /\ pc = "done" => LastEvent = "failed"

C4_Witness ==
    /\ config.skill_mode \in {"strict", "unknown"}
    /\ skill_state \in {"missing", "sync_failed"}
    /\ runner_calls = 1
    /\ pc = "done"
    /\ invocations = << >>

AllPromptsAre(text) == \A i \in 1..Len(invocations) : invocations[i].prompt = text

\* The run_* function is over: it returned or the job already went on
RunnerReturned == runner_calls > 0 /\ pc \notin {"call_runner", "attempt", "verify"}

\* C5 as stated: in warn mode with the required skill missing, the provider is
\* still invoked, with exactly the base prompt.
C5_WarnModeAlwaysInvokesProvider ==
    (config.skill_mode = "warn" /\ skill_state = "missing" /\ RunnerReturned)
        => /\ Len(invocations) >= 1
           /\ AllPromptsAre("base")

\* C5 as the code has it: in warn mode with the required skill missing, the
\* preflight lets the task run with the base prompt; the provider is invoked
\* with exactly that prompt when the provider settings are valid, and is not
\* invoked at all when they are not.
C5_WarnModeFallsBackToBasePrompt ==
    (config.skill_mode = "warn" /\ skill_state = "missing")
        => /\ prompt = "base"
           /\ AllPromptsAre("base")
           /\ RunnerReturned =>
                 IF config.provider_ok
                 THEN Len(invocations) >= 1
                 ELSE invocations = << >> /\ ~runner_result.success

C5_Witness ==
    /\ config.skill_mode = "warn"
    /\ skill_state = "missing"
    /\ RunnerReturned
    /\ Len(invocations) >= 1
    /\ invocations[1].prompt = "base"

AllowedAttempts == IF config.max_attempts > 1 THEN config.max_attempts ELSE 1

AllAttemptsFailed ==
    /\ Len(invocations) = AllowedAttempts
    /\ \A i \in 1..Len(invocations) : invocations[i].outcome # "exit0"

\* At most max(1, retry.max_attempts) invocations, none after an exit code 0,
\* and success is the success of the last invocation
AttemptsBoundedAndStopAtSuccess ==
    /\ Len(invocations) <= AllowedAttempts
    /\ \A i \in 1..Len(invocations) :
          /\ invocations[i].attempt = i
          /\ invocations[i].outcome = "exit0" => i = Len(invocations)
    /\ ai_result = "success" =>
          Len(invocations) >= 1 /\ invocations[Len(invocations)].outcome = "exit0"

\* C6 as stated: at most max(1, retry.max_attempts) invocations, none after
\* the first exit code 0, and failure only after every allowed attempt failed.
C6_FailureOnlyAfterAllAttempts ==
    /\ AttemptsBoundedAndStopAtSuccess
    /\ ai_result = "failure" => AllAttemptsFailed

\* C6 as the code has it: at most max(1, retry.max_attempts) invocations, none
\* after the first exit code 0; failure is returned after every allowed
\* attempt failed, or at once and without any invocation when the provider
\* settings are invalid.
C6_FailureAfterAllAttemptsOrConfigError ==
    /\ AttemptsBoundedAndStopAtSuccess
    /\ ai_result = "failure" =>
          IF config.provider_ok
          THEN AllAttemptsFailed
          ELSE invocations = << >>

C6_Witness ==
    /\ config.max_attempts = 2
    /\ Len(invocations) = 2
    /\ invocations[1].outcome # "exit0"
    /\ invocations[2].outcome = "exit0"
    /\ ai_result = "success"

\* C7: a skipped event is never emitted in a run that already emitted start.
C7_NoSkippedAfterStart ==
    \A i, j \in 1..Len(events) :
        (i < j /\ events[i].event = "start") => events[j].event # "skipped"

\* C8: a finished run has exactly one terminal event, as its last event, and a
\* run that emitted start ends with failed or completed.
C8_ExactlyOneTerminalEvent ==
    pc = "done"
        => /\ Len(events) >= 1
           /\ LastEvent \in TerminalEvents
           /\ \A i \in 1..(Len(events) - 1) : events[i].event \notin TerminalEvents
           /\ (events[1].event = "start") => LastEvent \in {"failed", "completed"}

\* The provider settings are a configuration error: an unknown ai.provider,
\* or provider codex with an empty command_template
ConfigurationError ==
    \/ config.provider \notin {"claude", "codex"}
    \/ config.provider = "codex" /\ config.command_template = ""

\* run_ai_task was called (the preflight let the task run) and has returned
RunAiTaskReturned == prompt # "none" /\ pc \in {"verify", "returned", "done"}

\* C16: on a configuration error run_ai_task returns failure at once, with no
\* provider invocation, no retry and no backoff sleep, whatever max_attempts
\* and backoff_seconds are.
C16_ConfigErrorFailsFast ==
    ConfigurationError
        => /\ invocations = << >>
           /\ sleeps = 0
           /\ attempt <= 1
           /\ RunAiTaskReturned => ai_result = "failure" /\ ~runner_result.success

C16_Witness ==
    /\ ConfigurationError
    /\ RunAiTaskReturned
    /\ config.provider = "codex"
    /\ config.max_attempts = 2
    /\ config.backoff_seconds > 0
    /\ ai_result = "failure"
    /\ invocations = << >>

-----------------------------------------------------------------------------
(* Claims about result parsing, alerts and quantities (checked under SpecAlert) *)

\* The text is one that the parser is to answer with None: malformed front
\* matter, text that is no JSON, JSON that is no object or whose price is no
\* object, front matter without all required keys
MustDegradeToNone(raw) ==
    \/ raw.format \in {"empty", "plain"}
    \/ raw.format = "frontmatter" /\ raw.shape # "mapping"
    \/ raw.format = "frontmatter" /\ ~(RequiredFields \subseteq raw.keys)
    \/ raw.format = "json" /\ raw.shape # "object"
    \/ raw.format = "json" /\ "price" \in raw.keys /\ ~raw.price_is_object

\* C15: parse_single_stock_result returns a result or None for every text and
\* never raises; malformed front matter, unparseable JSON, JSON that is no
\* object or whose price is no object, and missing required keys give None.
C15_ParserNeverRaises ==
    alert_pc = "parsed"
        => /\ parse_outcome.kind \in {"None", "result"}
           /\ MustDegradeToNone(raw_text) => parse_outcome.kind = "None"

ThresholdOrDefault(has, value) == IF has THEN value ELSE 3

ExpectedSignalType(r, min_bull, min_bear) ==
    IF r.suggestion = "buy" THEN "buy"
    ELSE IF r.suggestion = "sell" THEN "sell"
    ELSE IF r.bullish_count >= min_bull /\ r.score > 0 THEN "buy"
    ELSE IF r.bearish_count >= min_bear /\ r.score < 0 THEN "sell"
    ELSE "none"

MinBull ==
    ThresholdOrDefault(threshold_config.has_min_bullish_signals,
                       threshold_config.min_bullish_signals)

MinBear ==
    ThresholdOrDefault(threshold_config.has_min_bearish_signals,
                       threshold_config.min_bearish_signals)

\* C19: check_alert takes the first condition that matches, in this order:
\* suggestion buy gives a buy alert and suggestion sell a sell alert whatever
\* the score and the signal counts; else bullish_count >= min_bullish_signals
\* with score > 0 gives buy; else bearish_count >= min_bearish_signals with
\* score < 0 gives sell; else there is no alert.
C19_FirstMatchingConditionWins ==
    alert_pc \in {"checked", "sized"}
        => IF parsed_result.kind = "result"
           THEN /\ alert.signal_type
                      = ExpectedSignalType(parsed_result.result, MinBull, MinBear)
                /\ alert # NoAlert =>
                      /\ alert.stock_code = parsed_result.result.stock_code
                      /\ alert.price = parsed_result.result.price
           ELSE alert = NoAlert

C19_Witness ==
    /\ alert_pc = "checked"
    /\ parsed_result.kind = "result"
    /\ parsed_result.result.suggestion = "buy"
    /\ parsed_result.result.score < 0
    /\ parsed_result.result.bullish_count = 0
    /\ parsed_result.result.bearish_count >= MinBear
    /\ alert.signal_type = "buy"

\* The suggested buy quantity is floor(capital * buy_ratio / price), and 0
\* when an input is <= 0 or the budget is below the price
BuyQuantityIsFloor ==
    LET capital == sizing.capital
        buy_ratio == sizing.buy_ratio
        price == alert.price
        quantity == enriched_alert.suggested_quantity
    IN  /\ IF capital <= 0 \/ buy_ratio <= 0 \/ price <= 0 \/ capital * buy_ratio < price
           THEN quantity = 0
           ELSE /\ quantity >= 1
                /\ quantity * price <= capital * buy_ratio
                /\ capital * buy_ratio < (quantity + 1) * price
        /\ (capital = 200000 /\ buy_ratio = 20 /\ price = 118000) => quantity = 33

SellQuantityIsClamped ==
    LET holding_quantity == sizing.holding_quantity
        sell_ratio == sizing.sell_ratio
        quantity == enriched_alert.suggested_quantity
        floor == (holding_quantity * sell_ratio) \div 100
    IN  /\ quantity = IF floor < 1 THEN 1
                      ELSE IF floor > holding_quantity THEN holding_quantity ELSE floor
        /\ quantity >= 1
        /\ quantity <= holding_quantity
        /\ (holding_quantity = 100 /\ sell_ratio = 30) => quantity = 30

C24_BothFormatsGiveSameResult ==
    alert_pc = "compared"
        => /\ parse_outcome.kind = "result"
           /\ twin_outcome = parse_outcome
           /\ parse_outcome.result.suggestion \in {"buy", "sell", "hold"}
           /\ parse_outcome.result.bullish_count = Len(parse_outcome.result.bullish_signals)
           /\ parse_outcome.result.bearish_count = Len(parse_outcome.result.bearish_signals)
           /\ \A i \in 1..Len(parse_outcome.result.bullish_signals) :
                 parse_outcome.result.bullish_signals[i] \in {"ma_cross", "kd_cross"}

C24_Witness ==
    /\ alert_pc = "compared"
    /\ raw_text.format = "frontmatter"
    /\ twin_text.format = "json"
    /\ raw_text.bullish_signals.kind = "str"
    /\ twin_text.bullish_signals.kind = "list"
    /\ raw_text.suggestion = "BUY"
    /\ twin_outcome.kind = "result"
    /\ twin_outcome.result.suggestion = "buy"
    /\ twin_outcome.result.bullish_signals = <<"ma_cross", "kd_cross">>
    /\ twin_outcome.result.bullish_count = 2

\* C25: a document that starts with a front-matter block lacking one of the
\* seven required keys gives no result: parse_single_stock_result returns
\* None, neither a partial result nor one from the JSON parser, and no alert
\* follows.
C25_MissingRequiredKeyGivesNoResult ==
    (alert_pc # "init" /\ FrontmatterIsMapping(raw_text)
                       /\ ~(RequiredFields \subseteq raw_text.keys))
        => /\ parse_outcome = ReturnedNone
           /\ alert = NoAlert

C25_Witness ==
    /\ alert_pc = "checked"
    /\ FrontmatterIsMapping(raw_text)
    /\ raw_text.keys = RequiredFields \ {"price_close"}
    /\ raw_text.stock_code = "2330"
    /\ raw_text.suggestion = "buy"
    /\ parse_outcome = ReturnedNone
    /\ alert = NoAlert

-----------------------------------------------------------------------------
(* Claims about the report a job attaches and the order of a run (checked under SpecJob) *)

\* C31: the report the news or daily job parses and attaches in a run that
\* ends completed is the file the freshness-filtered glob locates, modified at
\* or after the start minus 2 seconds, whatever older files the output
\* directory already held.
C31_AttachedReportIsFresh ==
    (job \in {"news", "daily"} /\ pc = "done" /\ LastEvent = "completed")
        => /\ report_path # NoPath
           /\ files[report_path] >= started_at - MTIME_TOLERANCE

\* Position of the first event of a name in the log, 0 when there is none
FirstIndexOf(name) ==
    IF \E i \in 1..Len(events) : events[i].event = name
    THEN CHOOSE i \in 1..Len(events) :
            /\ events[i].event = name
            /\ \A j \in 1..(i - 1) : events[j].event # name
    ELSE 0

Completed == events # << >> /\ LastEvent = "completed"

\* Each step of a run has the steps before it behind it: the provider is
\* invoked only after start, candidates are persisted only after a successful
\* provider call, an email is sent only after that call and, in the daily and
\* the monitor job, after persisting
StepsInOrder ==
    /\ invocations # << >> => FirstIndexOf("start") = 1
    /\ persisted => /\ job \in {"daily", "monitor"}
                    /\ ai_result = "success" /\ runner_result.success
    /\ emails > 0 => /\ ai_result = "success" /\ runner_result.success
                     /\ job \in {"daily", "monitor"} => persisted

NoEmailUnlessCompleted ==
    (pc = "done" /\ events # << >> /\ LastEvent \in {"skipped", "failed"}) => emails = 0

\* C32 as stated: completed is emitted only after start, a successful
\* provider call, persisting (daily and monitor) and the notification
\* attempt, in this order; a run that ends skipped or failed sends no email.
C32_CompletedAfterAllSteps ==
    /\ StepsInOrder
    /\ NoEmailUnlessCompleted
    /\ Completed => /\ FirstIndexOf("start") = 1
                    /\ ai_result = "success" /\ runner_result.success
                    /\ job \in {"daily", "monitor"} => persisted
                    /\ emails = 1

\* C32 as the code has it: the same, except that the monitor job makes a
\* notification attempt only when an alert was triggered; with no alert it
\* emits completed (alert_count 0) having sent nothing.
C32_CompletedAfterAllStepsAlertsOnly ==
    /\ StepsInOrder
    /\ NoEmailUnlessCompleted
    /\ Completed => /\ FirstIndexOf("start") = 1
                    /\ ai_result = "success" /\ runner_result.success
                    /\ job \in {"daily", "monitor"} => persisted
                    /\ IF job = "monitor" /\ events[Len(events)].detail = "alert_count_zero"
                       THEN emails = 0
                       ELSE emails = 1

\* A monitor run that ends completed with an alert mailed after persisting
C32_Witness ==
    /\ job = "monitor"
    /\ pc = "done"
    /\ Completed
    /\ events[Len(events)].detail = "alert_count_positive"
    /\ persisted
    /\ emails = 1
    /\ Len(invocations) >= 2

\* C36: the monitor job invoked on a trading day at a time outside the
\* window [monitor_start, monitor_end] emits skipped and never reads the plan
\* or calls the provider; invoked at monitor_start or at monitor_end, to the
\* minute, it proceeds.
C36_WindowInclusiveToTheMinute ==
    (job = "monitor" /\ trading_day)
        => /\ (monitor_now.minute < MONITOR_START \/ monitor_now.minute > MONITOR_END)
                 => /\ events = <<Event("skipped", "outside_monitor_window")>>
                    /\ pc = "done"
                    /\ runner_calls = 0
                    /\ invocations = << >>
           /\ monitor_now.minute \in {MONITOR_START, MONITOR_END}
                 => events[1] = Event("start", "")

-----------------------------------------------------------------------------
(* Claims about the score identity (checked under SpecRisk) *)

\* total_score as the engine computes it from the other three scores
ScoreIdentity(c) ==
    c.total_score = clamp(c.technical_score + c.news_score - c.risk_penalty, 0, 100 * Pt)

FromSignalEngine == origin \in {"daily_plan", "intraday_monitor"}

\* The last reason of a candidate is one a risk rule appended
DowngradedByRule(c) ==
    /\ c.reasons # << >>
    /\ c.reasons[Len(c.reasons)].tag \in {"risk_capital", "risk_confidence", "risk_max_buy"}

\* C30: every candidate the Signal Engine produces, and every candidate
\* apply_risk_rules returns for a list the Signal Engine produced, has
\* total_score = clamp(technical_score + news_score - risk_penalty, 0, 100);
\* a downgrade keeps the two fields consistent, also from a total_score that
\* was already clamped at 0.
C30_ScoreIdentityKept ==
    FromSignalEngine =>
        /\ \A i \in 1..Len(candidates) : ScoreIdentity(candidates[i])
        /\ phase = "adjusted" => \A i \in 1..Len(adjusted) : ScoreIdentity(adjusted[i])

\* A buy candidate of the intraday engine whose sum was below 0 (total_score
\* clamped at 0) is returned downgraded by a risk rule
C30_Witness ==
    /\ FromSignalEngine
    /\ phase = "adjusted"
    /\ \E i \in 1..Len(candidates), j \in 1..Len(adjusted) :
          /\ candidates[i].action = "buy"
          /\ candidates[i].total_score = 0
          /\ candidates[i].technical_score + candidates[i].news_score
                 - candidates[i].risk_penalty < 0
          /\ adjusted[j].stock_code = candidates[i].stock_code
          /\ DowngradedByRule(adjusted[j])
          /\ adjusted[j].risk_penalty > candidates[i].risk_penalty
          /\ adjusted[j].total_score = 0

-----------------------------------------------------------------------------
(* Claims about ranking, cutoff and reasons (checked under SpecRanking) *)

\* The returned candidate of an input candidate (stock codes are distinct)
ReturnedFor(i) ==
    adjusted[CHOOSE j \in 1..Len(adjusted) : adjusted[j].stock_code = candidates[i].stock_code]

\* Input candidate i is a buy that passes the capital and the confidence
\* check as apply_risk_rules evaluates them
Qualified(i) ==
    /\ candidates[i].action = "buy"
    /\ GivenCapital > 0
    /\ _clone_candidate(candidates[i]).confidence >= GivenMinBuyConfidence

QualifiedSet == {i \in 1..Len(candidates) : Qualified(i)}

StaysBuy(i) == ReturnedFor(i).action = "buy"

CappedOut(i) ==
    /\ ReturnedFor(i).action = "watch"
    /\ DowngradedByRule(ReturnedFor(i))
    /\ ReturnedFor(i).reasons[Len(ReturnedFor(i).reasons)].tag = "risk_max_buy"

\* The qualified candidates that stay buy are the first min(cap, count) of
\* them in the order of score(i) descending, ties in input order
TopNStayBuy(score(_)) ==
    /\ Cardinality({i \in QualifiedSet : StaysBuy(i)})
          = Min(GivenMaxBuySignals, Cardinality(QualifiedSet))
    /\ \A i \in QualifiedSet : StaysBuy(i) \/ CappedOut(i)
    /\ \A i, j \in QualifiedSet :
          (CappedOut(i) /\ StaysBuy(j))
             => /\ score(i) <= score(j)
                /\ score(i) = score(j) => j < i

InputScore(i) == candidates[i].total_score

ClonedScore(i) == _clone_candidate(candidates[i]).total_score

\* C33 as stated: among the buy candidates that pass the capital and
\* confidence checks, those that stay buy are exactly the min(max_buy_signals,
\* count) with the highest input total_score, ties broken by input order; no
\* candidate downgraded for the cap has an input total_score strictly greater
\* than that of a candidate that stayed buy.
C33_TopNByInputScore ==
    (phase = "adjusted" /\ origin = "given") => TopNStayBuy(InputScore)

\* C33 as the code has it: the ranking is by the total_score of the clone,
\* which is the input total_score rounded to two decimals; input scores that
\* are equal after rounding are ranked by input order.
C33_TopNByRoundedScore ==
    (phase = "adjusted" /\ origin = "given") => TopNStayBuy(ClonedScore)

\* Three qualified candidates, a cap of 1 or 2, and among them two whose
\* input scores differ and are equal after rounding, one staying buy and one
\* downgraded for the cap
C33_Witness ==
    /\ phase = "adjusted"
    /\ origin = "given"
    /\ Cardinality(QualifiedSet) = 3
    /\ GivenMaxBuySignals \in {1, 2}
    /\ \E i, j \in QualifiedSet :
          /\ InputScore(i) # InputScore(j)
          /\ ClonedScore(i) = ClonedScore(j)
          /\ StaysBuy(i)
          /\ CappedOut(j)

\* `sorted` is a stable sort of `given` by total_score, descending: a
\* rearrangement of it in non-increasing order of total_score in which
\* candidates of equal score keep their relative order
StableDescending(given, sorted) ==
    /\ Len(sorted) = Len(given)
    /\ \E from \in Permutations(1..Len(given)) :
          /\ \A k \in 1..Len(sorted) : sorted[k] = given[from[k]]
          /\ \A k, l \in 1..Len(sorted) :
                k < l => /\ sorted[k].total_score >= sorted[l].total_score
                         /\ sorted[k].total_score = sorted[l].total_score
                               => from[k] < from[l]

\* The candidates of the intraday engine in the order of their results
IntradayUnsorted == IntradayCollectGiven(results_given).candidates

RiskRuleReasons == {"risk_capital", "risk_confidence", "risk_max_buy"}

IsPrefixOf(short, long) ==
    /\ Len(short) <= Len(long)
    /\ SubSeq(long, 1, Len(short)) = short

\* The reasons of a returned candidate against those of the input candidate
\* it was made from
ReasonsKept(given, returned) ==
    /\ returned.stock_code = given.stock_code
    /\ IsPrefixOf(given.reasons, returned.reasons)
    /\ IF given.action = "buy" /\ returned.action = "watch"
       THEN /\ Len(returned.reasons) > Len(given.reasons)
            /\ \A k \in (Len(given.reasons) + 1)..Len(returned.reasons) :
                  returned.reasons[k].tag \in RiskRuleReasons
       ELSE returned.reasons = given.reasons

\* C35: for every candidate, the reasons returned by apply_risk_rules have
\* the input reasons as a prefix, in the same order; a downgraded candidate
\* has risk-rule reasons appended after them, an untouched candidate has
\* exactly its input reasons.
C35_ReasonsOnlyAppended ==
    phase = "adjusted"
        => /\ Len(adjusted) = Len(candidates)
           /\ \E from \in Permutations(1..Len(candidates)) :
                 \A k \in 1..Len(adjusted) :
                    ReasonsKept(candidates[from[k]], adjusted[k])

\* A returned list with a downgraded candidate that came with two reasons
\* and an untouched one that came with one
C35_Witness ==
    /\ phase = "adjusted"
    /\ \E k \in 1..Len(adjusted) :
          /\ Len(adjusted[k].reasons) = 3
          /\ adjusted[k].reasons[1].tag = "given"
          /\ adjusted[k].reasons[2].tag = "given_too"
          /\ adjusted[k].reasons[3].tag \in RiskRuleReasons
    /\ \E k \in 1..Len(adjusted) :
          /\ adjusted[k].action = "buy"
          /\ adjusted[k].reasons = << >>
    /\ \E k \in 1..Len(adjusted) :
          /\ adjusted[k].action = "watch"
          /\ adjusted[k].reasons = <<Reason("given", << >>)>>

\* The returned candidate of an input buy candidate when the capital gate
\* is shut: watch, with the penalty of the gate on top of before(given)
GateShut(given, returned, before(_)) ==
    /\ returned.stock_code = given.stock_code
    /\ given.action = "buy"
          => /\ returned.action = "watch"
             /\ returned.risk_penalty = before(given) + 10 * Pt
             /\ returned.reasons = Append(given.reasons, Reason("risk_capital", << >>))
    /\ given.action # "buy" => returned.action = given.action

AllGateShut(before(_)) ==
    /\ Len(adjusted) = Len(candidates)
    /\ \A k \in 1..Len(adjusted) : adjusted[k].action # "buy"
    /\ \E from \in Permutations(1..Len(candidates)) :
          \A k \in 1..Len(adjusted) : GateShut(candidates[from[k]], adjusted[k], before)

InputPenalty(given) == given.risk_penalty

ClonedPenalty(given) == _clone_candidate(given).risk_penalty

\* C39 as stated: with preferences missing or not a map, or capital absent,
\* zero or negative, apply_risk_rules returns no buy candidate: every input
\* buy candidate is downgraded to watch with risk_penalty increased by
\* exactly 10, whatever its confidence and whatever max_buy_signals is.
C39_NoCapitalNoBuy ==
    (phase = "adjusted" /\ GivenCapital <= 0) => AllGateShut(InputPenalty)

\* C39 as the code has it: the 10 is added to the risk_penalty of the clone,
\* which is the input risk_penalty rounded to two decimals.
C39_NoCapitalNoBuyOnRoundedPenalty ==
    (phase = "adjusted" /\ GivenCapital <= 0) => AllGateShut(ClonedPenalty)

\* No preferences at all (or no map): a buy with a confidence below the
\* default threshold, one with a three-decimal penalty and a third buy all
\* come back as watch
C39_Witness ==
    /\ phase = "adjusted"
    /\ ~preferences.is_dict
    /\ Len(candidates) = 3
    /\ \A i \in 1..3 : candidates[i].action = "buy"
    /\ \E i \in 1..3 : candidates[i].confidence < DEFAULT_MIN_BUY_CONFIDENCE
    /\ \E i \in 1..3 : candidates[i].risk_penalty = 1234
    /\ \A k \in 1..3 : adjusted[k].action = "watch"
    /\ \E k \in 1..3 : adjusted[k].risk_penalty = 11230

-----------------------------------------------------------------------------
(* Claims about the extraction of a trading plan (checked under SpecPlan) *)

IsHeading(line) == line.start \in {"##", "###"}

\* The list a heading announces
HeadedList(line) ==
    IF Contains(line, "buy_plan") \/ Contains(line, "bullish_candidates")
    THEN "buy_candidates"
    ELSE IF Contains(line, "watch_list") THEN "watchlist"
    ELSE "none"

IsHeaderRow(line) ==
    line.start = "|" /\ \E word \in {"code", "target", "item"} : Contains(line, word)

IsSeparatorRow(line) == line.start = "|" /\ line.dashes

IsDataRow(line) == line.start = "|" /\ ~IsHeaderRow(line) /\ ~IsSeparatorRow(line)

\* Line i is a table row and the heading that most recently precedes it
\* announces this list
RowUnderHeadingOf(lines, i, list) ==
    /\ IsDataRow(lines[i])
    /\ \E h \in 1..(i - 1) :
          /\ IsHeading(lines[h])
          /\ HeadedList(lines[h]) = list
          /\ \A k \in (h + 1)..(i - 1) : ~IsHeading(lines[k])

CodesOf(list) ==
    LET entries == SelectSeq(plan_extracted, LAMBDA e : e.list = list)
    IN  [i \in 1..Len(entries) |-> entries[i].code]

\* C22: every code that parse_trading_plan extracts comes from a table row
\* that is neither a header row nor a separator row, and goes to the list of
\* the section heading that most recently preceded the row: buy_candidates
\* under the buy-plan and strong-buy headings, watchlist under the watch-list
\* heading, nothing before any such heading.
C22_RoutedByLastHeading ==
    plan_pc = "parsed"
        => /\ \A i \in 1..Len(plan_extracted) :
                 LET e == plan_extracted[i]
                 IN  /\ RowUnderHeadingOf(plan_content, e.line, e.list)
                     /\ _is_likely_stock_code(e.code, plan_content[e.line])
           /\ \A i \in 1..Len(plan_parsed.buy_candidates) :
                 InList(CodesOf("buy_candidates"), plan_parsed.buy_candidates[i])
           /\ \A i \in 1..Len(plan_parsed.watchlist) :
                 InList(CodesOf("watchlist"), plan_parsed.watchlist[i])

\* C23: buy_candidates, watchlist and all hold no code twice and keep the
\* order in which the codes were first taken; all is buy_candidates followed
\* by the watchlist codes that are not in buy_candidates; no table row gives
\* more than one code.
C23_ListsDistinctInFirstSeenOrder ==
    plan_pc = "parsed"
        => /\ plan_parsed.buy_candidates = Unique(<< >>, CodesOf("buy_candidates"))
           /\ plan_parsed.watchlist = Unique(<< >>, CodesOf("watchlist"))
           /\ \A list \in {plan_parsed.buy_candidates, plan_parsed.watchlist,
                           plan_parsed.all} :
                 \A i, j \in 1..Len(list) : i # j => list[i] # list[j]
           /\ plan_parsed.all
                 = plan_parsed.buy_candidates
                      \o SelectSeq(plan_parsed.watchlist,
                                   LAMBDA code : ~InList(plan_parsed.buy_candidates, code))
           /\ \A i, j \in 1..Len(plan_extracted) :
                 i # j => plan_extracted[i].line # plan_extracted[j].line
           /\ \A i \in 1..Len(plan_extracted) :
                 /\ plan_content[plan_extracted[i].line].start = "|"
                 /\ i > 1 => plan_extracted[i - 1].line < plan_extracted[i].line

\* A code taken twice, once for each list, from rows that hold two codes in
\* their first field
C23_Witness ==
    /\ plan_pc = "parsed"
    /\ Len(plan_extracted) = 2
    /\ \A i \in 1..2 : Len(TakenCodes_NoBreak(plan_content[plan_extracted[i].line])) = 2
    /\ plan_parsed.buy_candidates = <<"2317">>
    /\ plan_parsed.watchlist = <<"2317">>
    /\ plan_parsed.all = <<"2317">>

-----------------------------------------------------------------------------
(* Claims about the PID guard (checked under SpecPid) *)

\* Process p is the only one that has started
StartsAlone(p) == \A q \in Starters \ {p} : proc[q].pc = "idle"

\* Process p has left check_pid
PastCheck(p) == proc[p].pc \notin {"idle", "check_exists", "read", "kill", "remove"}

\* The file the previous run left names a live process, a dead one, or holds
\* a text that is no number
LeftNames(state) ==
    /\ left_file.exists
    /\ left_file.content.kind = "pid"
    /\ IF state = "live" THEN old_process \in {"live", "foreign"} ELSE old_process = "dead"

LeftHoldsText == left_file.exists /\ left_file.content.kind = "text"

\* C26: for a process that starts alone, check_pid ends the process and
\* leaves the PID file as it was when the file names a live process; it
\* removes the file and lets the start go on when the file names a dead
\* process or holds a text that is no number; after write_pid and remove_pid
\* there is no PID file.
C26_GuardOutcomes ==
    \A p \in Starters :
        StartsAlone(p) =>
            /\ (LeftNames("live") /\ proc[p].pc \notin {"idle", "check_exists", "read", "kill"})
                  => /\ proc[p].pc \in {"exited", "crashed"}
                     /\ pid_file = left_file
            /\ ((LeftNames("dead") \/ LeftHoldsText) /\ proc[p].pc = "open")
                  => pid_file = NoPidFile
            /\ ((LeftNames("dead") \/ LeftHoldsText) /\ PastCheck(p))
                  => /\ proc[p].pc \in {"open", "write", "guarded", "running",
                                        "unlink", "stopped"}
                     /\ proc[p].inode # left_file.inode
            /\ proc[p].pc = "stopped" => ~pid_file.exists

C26_Witness ==
    /\ StartsAlone(1)
    /\ LeftHoldsText
    /\ proc[1].pc = "stopped"
    /\ ~pid_file.exists

\* C27: two scheduler processes are never both past the guard and running.
C27_AtMostOneRunning ==
    ~(proc[1].pc = "running" /\ proc[2].pc = "running")

\* Process p was refused by check_pid: os.kill found the process the file
\* names and sys.exit(1) ended the start
Refused(p) == proc[p].pc = "exited"

\* C38: a starting process that check_pid refuses ends without removing or
\* overwriting the PID file of the running instance: it never opened the
\* file for writing, its exit removes nothing, and remove_pid is registered
\* with atexit only for a process that has passed the guard and has gone
\* through write_pid.
C38_RefusedLeavesPidFile ==
    \A p \in Starters :
        /\ Refused(p) => /\ ~atexit_hooks[p].registered
                         /\ ~atexit_hooks[p].removed
                         /\ proc[p].inode = 0
        /\ (Refused(p) /\ StartsAlone(p)) => pid_file = left_file
        /\ atexit_hooks[p].registered =>
              /\ PastCheck(p)
              /\ proc[p].pc \notin {"open", "write", "guarded", "exited"}
              /\ proc[p].inode # 0

C38_Witness ==
    /\ proc[1].pc = "running"
    /\ atexit_hooks[1].registered
    /\ Refused(2)
    /\ atexit_hooks[2].ran
    /\ pid_file.exists
    /\ pid_file.content = Content("pid", 1)

-----------------------------------------------------------------------------
(* Claims about the alerts of a monitor run (checked under SpecMonitor) *)

\* The stock codes of the parsed results whose suggestion is buy, in order
BuySuggested ==
    LET buys == SelectSeq(results_given, LAMBDA r : r.suggestion = "buy")
    IN  [i \in 1..Len(buys) |-> buys[i].stock_code]

\* The stock codes of the buy alerts raised for a suggestion, in order
BuyAlerted ==
    LET buys == SelectSeq(monitor_alerts, LAMBDA e : e.alert.signal_type = "buy"
                                                     /\ e.alert.reason = "suggestion")
    IN  [i \in 1..Len(buys) |-> buys[i].alert.stock_code]

\* C40: the alerts of a monitor run follow from the parsed results, the
\* thresholds and the sizing inputs alone: every parsed result with
\* suggestion buy has its buy alert, in the order of the results, whatever
\* the risk rules did to the candidate of that stock in the same run, and no
\* alert is raised without a parsed result.
C40_AlertsIgnoreRiskRules ==
    phase = "alerted" =>
        /\ BuyAlerted = BuySuggested
        /\ Len(monitor_alerts) <= Len(results_given)
        /\ \A i \in 1..Len(monitor_alerts) :
              \E j \in 1..Len(results_given) :
                  monitor_alerts[i].alert.stock_code = results_given[j].stock_code

C40_Witness ==
    /\ phase = "alerted"
    /\ Len(results_given) = 2
    /\ results_given[1].stock_code # results_given[2].stock_code
    /\ \A i \in 1..2 : results_given[i].suggestion = "buy"
    /\ Len(adjusted) = 2
    /\ \A j \in 1..2 : adjusted[j].action = "watch" /\ DowngradedByRule(adjusted[j])
    /\ Len(monitor_alerts) = 2
    /\ \A i \in 1..2 : monitor_alerts[i].alert.signal_type = "buy"

-----------------------------------------------------------------------------
(* Claims about the skill lookup and synchronization (checked under SpecSkill) *)

\* The synchronization ran: the required skill was found
SyncRan == skill_pc = "prepared" /\ preflight.skill \in {"synced", "sync_failed"}

\* C28: the synchronization neither deletes nor recopies a skill whose source
\* is the same path as its target in the provider home, and reports it as
\* synced; for every other discovered skill the target directory is replaced
\* by a copy of the source; no source directory is deleted.
C28_SyncKeepsSources ==
    SyncRan =>
        \A i \in 1..Len(preflight.repo_skill_map) :
            LET source == preflight.repo_skill_map[i]
                source_at == DirectoryAt(source.root, skill_cfg, home_real)
            IN  /\ skills[source_at][source.name] = skills_before[source_at][source.name]
                /\ source.name \in preflight.synced
                /\ source.root # skill_cfg.provider_home
                      => skills[home_real][source.name]
                            = skills_before[source_at][source.name]

\* The roots in the order of the lookup: the configured roots that hold
\* ".<provider>/skills" in their path, the other configured roots, the
\* provider home
LookupOrder ==
    SelectSeq(skill_cfg.repo_skill_roots,
              LAMBDA root : HoldsProviderSkills(root, skill_cfg.provider))
    \o SelectSeq(skill_cfg.repo_skill_roots,
                 LAMBDA root : ~HoldsProviderSkills(root, skill_cfg.provider))
    \o <<skill_cfg.provider_home>>

HoldsRequiredSkill(root) ==
    skills_before[DirectoryAt(root, skill_cfg, home_real)][RequiredSkill]
        \notin {"none", "no_manifest"}

\* The root is the first one of the lookup order that holds the required skill
FirstHolder(root) ==
    \E i \in 1..Len(LookupOrder) :
        /\ LookupOrder[i] = root
        /\ HoldsRequiredSkill(root)
        /\ \A j \in 1..(i - 1) : ~HoldsRequiredSkill(LookupOrder[j])

OnlyInProviderHome ==
    /\ HoldsRequiredSkill(skill_cfg.provider_home)
    /\ \A i \in 1..Len(skill_cfg.repo_skill_roots) :
          skill_cfg.repo_skill_roots[i] # skill_cfg.provider_home
             => ~HoldsRequiredSkill(skill_cfg.repo_skill_roots[i])

\* C29: the required skill is looked up in the configured roots that hold
\* ".<provider>/skills" in their path, then in the other configured roots in
\* the order of the configuration, then in the provider home; the first root
\* that holds it as a directory with SKILL.md is the source named in the
\* enforced prompt; a skill that is only in the provider home passes the
\* strict preflight.
C29_LookupOrder ==
    (skill_pc = "prepared" /\ skill_cfg.provider_home # "")
        => /\ preflight.skill = "missing"
                 <=> ~ \E i \in 1..Len(LookupOrder) : HoldsRequiredSkill(LookupOrder[i])
           /\ preflight.skill # "missing"
                 => /\ FirstHolder(preflight.repo_skill_dir.root)
                    /\ preflight.repo_skill_dir.name = RequiredSkill
           /\ OnlyInProviderHome
                 => /\ preflight.prepared.can_run
                    /\ preflight.prepared.prompt = "enforced"
                    /\ preflight.repo_skill_dir.root = skill_cfg.provider_home

C29_Witness ==
    /\ skill_pc = "prepared"
    /\ skill_cfg.provider = "claude"
    /\ skill_cfg.mode = "strict"
    /\ skill_cfg.repo_skill_roots = <<"/root/.codex/skills", "/repo/.claude/skills">>
    /\ skill_cfg.provider_home = "/root/.claude/skills"
    /\ HoldsRequiredSkill("/root/.codex/skills")
    /\ HoldsRequiredSkill("/repo/.claude/skills")
    /\ HoldsRequiredSkill("/root/.claude/skills")
    /\ preflight.prepared.prompt = "enforced"
    /\ preflight.repo_skill_dir.root = "/repo/.claude/skills"

\* Position of a part in the prompt, 0 when it is not there
PartAt(part) ==
    IF \E i \in 1..Len(preflight.prompt) : preflight.prompt[i] = part
    THEN CHOOSE i \in 1..Len(preflight.prompt) : preflight.prompt[i] = part
    ELSE 0

InvokedEnforced == skill_pc = "invoked" /\ preflight.prepared.prompt = "enforced"

\* C37: whenever the provider is invoked with a skill-enforced prompt, the
\* preflight has completed with the required skill's directory and SKILL.md
\* present under the provider home, and the prompt holds the skill name, the
\* source skill path and the provider-home skill path ahead of the original
\* task text.
C37_EnforcedPromptHasSkillInstalled ==
    InvokedEnforced
        => /\ preflight.skill = "synced"
           /\ RequiredSkill \in preflight.synced
           /\ skills[home_real][RequiredSkill] \notin {"none", "no_manifest"}
           /\ FirstHolder(preflight.repo_skill_dir.root)
           /\ PartAt(PromptText(RequiredSkill)) > 0
           /\ PartAt(PromptPath(preflight.repo_skill_dir)) > 0
           /\ PartAt(PromptPath(SkillDir(skill_cfg.provider_home, RequiredSkill))) > 0
           /\ preflight.prompt[Len(preflight.prompt)] = PromptText("base_prompt")
           /\ PartAt(PromptText("original_task")) = Len(preflight.prompt) - 1
           /\ PartAt(PromptText(RequiredSkill)) < PartAt(PromptText("original_task"))
           /\ PartAt(PromptPath(preflight.repo_skill_dir)) < PartAt(PromptText("original_task"))
           /\ PartAt(PromptPath(SkillDir(skill_cfg.provider_home, RequiredSkill)))
                 < PartAt(PromptText("original_task"))

\* An enforced invocation for which the synchronization had to install the
\* skill: before the preflight the provider home did not hold it
C37_Witness ==
    /\ InvokedEnforced
    /\ skill_cfg.mode = "strict"
    /\ skills_before[home_real][RequiredSkill] \in {"none", "no_manifest"}
    /\ preflight.repo_skill_dir.root # skill_cfg.provider_home
    /\ skills[home_real][RequiredSkill] = preflight.repo_skill_dir.root

====
